---- MODULE Spec2Model ----
(***************************************************************************)
(* Model of the live chat client of kick-api (src/src/live_chat.rs and     *)
(* src/src/models/live_chat.rs): the connect handshake, the event pump     *)
(* next_event, the message decoder next_message and send_ping, running     *)
(* against a WebSocket peer that delivers frames one at a time; the caller *)
(* may drop a receive that is suspended.                                   *)
(*                                                                         *)
(* Strings whose characters the code inspects (event names, channel        *)
(* names) are sequences of one-character strings.  A text that the code    *)
(* hands to serde_json::from_str is a "document": either not JSON at all,  *)
(* or the JSON value it reads as.                                          *)
(***************************************************************************)
EXTENDS Integers, Sequences, FiniteSets

----------------------------------------------------------------------------
(* Bounds *)

\* Stream items (frames, errors, end of stream) an unscripted peer delivers
\* in all, handshake included.
MaxFrames == 4
\* The send_ping and close calls and the dropped receive calls of a run,
\* together; they count as frames of an unscripted run.
MaxExtraCalls == 1

----------------------------------------------------------------------------
(* String constants of the source, as character sequences *)

S_connection_established ==
    <<"p","u","s","h","e","r",":","c","o","n","n","e","c","t","i","o","n","_","e","s","t","a","b","l","i","s","h","e","d">>
S_subscription_succeeded ==
    <<"p","u","s","h","e","r","_","i","n","t","e","r","n","a","l",":","s","u","b","s","c","r","i","p","t","i","o","n","_","s","u","c","c","e","e","d","e","d">>
S_pusher_ping ==
    <<"p","u","s","h","e","r",":","p","i","n","g">>
S_pusher_pong ==
    <<"p","u","s","h","e","r",":","p","o","n","g">>
S_pusher_subscribe ==
    <<"p","u","s","h","e","r",":","s","u","b","s","c","r","i","b","e">>
S_pusher_prefix ==
    <<"p","u","s","h","e","r",":">>
S_pusher_internal_prefix ==
    <<"p","u","s","h","e","r","_","i","n","t","e","r","n","a","l",":">>
S_ChatMessageEvent ==
    <<"A","p","p","\\","E","v","e","n","t","s","\\","C","h","a","t","M","e","s","s","a","g","e","E","v","e","n","t">>
S_chatrooms ==
    <<"c","h","a","t","r","o","o","m","s",".">>
S_v2 ==
    <<".","v","2">>

\* Event names that only the peer uses.
S_pusher_error ==
    <<"p","u","s","h","e","r",":","e","r","r","o","r">>
S_member_added ==
    <<"p","u","s","h","e","r","_","i","n","t","e","r","n","a","l",":","m","e","m","b","e","r","_","a","d","d","e","d">>
S_UserBannedEvent ==
    <<"A","p","p","\\","E","v","e","n","t","s","\\","U","s","e","r","B","a","n","n","e","d","E","v","e","n","t">>
S_pusher_bare ==
    <<"p","u","s","h","e","r">>

\* str::starts_with
starts_with(s, prefix) ==
    /\ Len(s) >= Len(prefix)
    /\ SubSeq(s, 1, Len(prefix)) = prefix

----------------------------------------------------------------------------
(* JSON values and documents *)

JStr(s) == [t |-> "string", s |-> s]
\* A number, by its literal: the characters of the document.
JNum(n) == [t |-> "number", n |-> n]
JObj(f) == [t |-> "object", f |-> f]
JArr(a) == [t |-> "array", a |-> a]
JNull == [t |-> "null"]
NoFields == [k \in {} |-> JNull]

\* A text that is not JSON, and the text of a JSON value.
NotJson == [valid |-> FALSE]
Doc(v) == [valid |-> TRUE, json |-> v]

\* Option<T>
None == [some |-> FALSE]
Some(v) == [some |-> TRUE, v |-> v]

\* A derived Deserialize reads a struct from a JSON object, by field name,
\* or from a JSON array, by position; an array longer than the struct is
\* an error.  The result is the object read, or null when there is none.
AsStruct(v, names) ==
    IF v.t = "object" THEN v
    ELSE IF v.t = "array" /\ Len(v.a) <= Len(names)
        THEN JObj([k \in { names[i] : i \in 1..Len(v.a) } |->
                      v.a[CHOOSE i \in 1..Len(v.a) : names[i] = k]])
    ELSE JNull

\* Unsigned integers are kept as decimal numerals, which have no width.
Digits == <<"0", "1", "2", "3", "4", "5", "6", "7", "8", "9">>
IsDigit(c) == \E d \in 1..10 : Digits[d] = c
DigitValue(c) == (CHOOSE d \in 1..10 : Digits[d] = c) - 1
IsNumeral(text) == text # <<>> /\ \A i \in 1..Len(text) : IsDigit(text[i])

\* The numeral without its leading zeros.
RECURSIVE strip_zeros(_)
strip_zeros(text) ==
    IF Len(text) > 1 /\ Head(text) = "0" THEN strip_zeros(Tail(text)) ELSE text

\* a <= b, for two numerals without leading zeros.
numeral_leq(a, b) ==
    \/ Len(a) < Len(b)
    \/ /\ Len(a) = Len(b)
       /\ \/ a = b
          \/ \E i \in 1..Len(a) :
                /\ SubSeq(a, 1, i - 1) = SubSeq(b, 1, i - 1)
                /\ DigitValue(a[i]) < DigitValue(b[i])

\* u32::MAX and u64::MAX
U32_MAX == <<"4","2","9","4","9","6","7","2","9","5">>
U64_MAX == <<"1","8","4","4","6","7","4","4","0","7","3","7","0","9","5","5","1","6","1","5">>
\* 2^32 and 2^64, the first values that are no u32 and no u64.
TwoTo32 == <<"4","2","9","4","9","6","7","2","9","6">>
TwoTo64 == <<"1","8","4","4","6","7","4","4","0","7","3","7","0","9","5","5","1","6","1","6">>

HasField(o, k) == k \in DOMAIN o.f
IsString(o, k) == HasField(o, k) /\ o.f[k].t = "string"
\* A field of an unsigned integer type: serde_json hands a literal of
\* digits up to u64::MAX to the visitor as an unsigned integer, and any
\* other number as a negative integer or a float, which the visitor of an
\* unsigned type refuses; the visitor of u32 refuses what is above u32::MAX.
IsUnsigned(o, k, max) ==
    /\ HasField(o, k)
    /\ o.f[k].t = "number"
    /\ IsNumeral(o.f[k].n)
    /\ numeral_leq(strip_zeros(o.f[k].n), max)
IsU32(o, k) == IsUnsigned(o, k, U32_MAX)
IsU64(o, k) == IsUnsigned(o, k, U64_MAX)
IsArray(o, k) == HasField(o, k) /\ o.f[k].t = "array"
\* A field declared Option<T> with #[serde(default)]: absent or null is None.
IsAbsent(o, k) == ~HasField(o, k) \/ o.f[k].t = "null"
OptString(o, k) == IF IsAbsent(o, k) THEN None ELSE Some(o.f[k].s)
OptNumber(o, k) == IF IsAbsent(o, k) THEN None ELSE Some(o.f[k].n)

----------------------------------------------------------------------------
(* Wire types: src/src/models/live_chat.rs *)

\* An envelope read without looking at the type of data.
PusherMessage_any_data(text) ==
    IF ~text.valid THEN [ok |-> FALSE]
    ELSE LET v == AsStruct(text.json, <<"event", "data", "channel">>) IN
         IF v.t # "object" THEN [ok |-> FALSE]
         ELSE IF ~IsString(v, "event") \/ ~HasField(v, "data") THEN [ok |-> FALSE]
         ELSE [ok |-> TRUE,
               event |-> v.f["event"].s,
               data |-> IF IsString(v, "data") THEN v.f["data"].s ELSE <<>>,
               channel |-> IF IsString(v, "channel") THEN Some(v.f["channel"].s) ELSE None]

\* serde_json::from_str::<PusherMessage>(text): event and data must be JSON
\* strings, channel is optional; unknown fields are ignored.
PusherMessage(text) ==
    IF ~text.valid THEN [ok |-> FALSE]
    ELSE LET v == AsStruct(text.json, <<"event", "data", "channel">>) IN
         IF v.t # "object" THEN [ok |-> FALSE]
         ELSE IF ~IsString(v, "event") \/ ~IsString(v, "data") THEN [ok |-> FALSE]
         ELSE IF ~(IsAbsent(v, "channel") \/ IsString(v, "channel")) THEN [ok |-> FALSE]
         ELSE [ok |-> TRUE,
               event |-> v.f["event"].s,
               data |-> v.f["data"].s,
               channel |-> OptString(v, "channel")]

\* The event handed to the caller.
PusherEvent_without_channel(event, channel, data) ==
    [event |-> event, channel |-> None, data |-> data]

PusherEvent(event, channel, data) ==
    [event |-> event, channel |-> channel, data |-> data]

\* ChatBadge: type and text are required strings, count is optional.
ChatBadgeOk(json) ==
    LET b == AsStruct(json, <<"type", "text", "count">>) IN
    /\ b.t = "object"
    /\ IsString(b, "type")
    /\ IsString(b, "text")
    /\ IsAbsent(b, "count") \/ IsU32(b, "count")

\* ChatIdentity: color and badges are required.
ChatIdentityOk(json) ==
    LET i == AsStruct(json, <<"color", "badges">>) IN
    /\ i.t = "object"
    /\ IsString(i, "color")
    /\ IsArray(i, "badges")
    /\ \A k \in 1..Len(i.f["badges"].a) : ChatBadgeOk(i.f["badges"].a[k])

\* ChatSender: id, username and identity are required, slug is optional.
ChatSenderFields == <<"id", "username", "slug", "identity">>
ChatSenderOk(json) ==
    LET s == AsStruct(json, ChatSenderFields) IN
    /\ s.t = "object"
    /\ IsU64(s, "id")
    /\ IsString(s, "username")
    /\ IsAbsent(s, "slug") \/ IsString(s, "slug")
    /\ HasField(s, "identity")
    /\ ChatIdentityOk(s.f["identity"])

\* OriginalSender and OriginalMessage: one required string each.
OriginalSenderOk(json) ==
    LET o == AsStruct(json, <<"username">>) IN
    o.t = "object" /\ IsString(o, "username")
OriginalMessageOk(json) ==
    LET o == AsStruct(json, <<"content">>) IN
    o.t = "object" /\ IsString(o, "content")

\* ChatMessageMetadata: both members are optional.
ChatMessageMetadataOk(json) ==
    LET m == AsStruct(json, <<"original_sender", "original_message">>) IN
    /\ m.t = "object"
    /\ IsAbsent(m, "original_sender") \/ OriginalSenderOk(m.f["original_sender"])
    /\ IsAbsent(m, "original_message") \/ OriginalMessageOk(m.f["original_message"])

\* serde_json::from_str::<LiveChatMessage>(data): the second decode.
LiveChatMessageFields ==
    <<"id", "chatroom_id", "content", "type", "created_at", "sender", "metadata">>
LiveChatMessage(data) ==
    IF ~data.valid THEN [ok |-> FALSE]
    ELSE LET v == AsStruct(data.json, LiveChatMessageFields) IN
         IF v.t # "object" THEN [ok |-> FALSE]
         ELSE IF ~(/\ IsString(v, "id")
                   /\ IsAbsent(v, "chatroom_id") \/ IsU64(v, "chatroom_id")
                   /\ IsString(v, "content")
                   /\ IsString(v, "type")
                   /\ IsAbsent(v, "created_at") \/ IsString(v, "created_at")
                   /\ HasField(v, "sender")
                   /\ ChatSenderOk(v.f["sender"])
                   /\ IsAbsent(v, "metadata") \/ ChatMessageMetadataOk(v.f["metadata"]))
              THEN [ok |-> FALSE]
         ELSE LET sender == AsStruct(v.f["sender"], ChatSenderFields) IN
              [ok |-> TRUE,
               id |-> v.f["id"].s,
               chatroom_id |-> OptNumber(v, "chatroom_id"),
               content |-> v.f["content"].s,
               type |-> v.f["type"].s,
               created_at |-> OptString(v, "created_at"),
               sender |-> [id |-> sender.f["id"].n,
                           username |-> sender.f["username"].s,
                           slug |-> OptString(sender, "slug")]]

----------------------------------------------------------------------------
(* WebSocket messages (tungstenite::Message) and what ws.next() yields *)

Text(t) == [type |-> "Text", text |-> t]
Binary(b) == [type |-> "Binary", payload |-> b]
Ping(b) == [type |-> "Ping", payload |-> b]
Pong(b) == [type |-> "Pong", payload |-> b]
Close == [type |-> "Close"]
\* Some(Err(e)) and None of the stream.
StreamErr == [type |-> "Err"]
StreamEnd == [type |-> "End"]

\* serde_json::json!({...}).to_string(): the text of that JSON value.
to_string(v) == Doc(v)

----------------------------------------------------------------------------
(* Results of the calls *)

\* Ok(None), Ok(Some(v)) and Ok(()).
OkNone == [kind |-> "OkNone"]
OkSome(v) == [kind |-> "OkSome", v |-> v]
OkUnit == [kind |-> "Ok"]
\* KickApiError::WebSocketError, ::UnexpectedError and ::JsonError.
WebSocketError == [kind |-> "Err", error |-> "WebSocketError"]
UnexpectedError == [kind |-> "Err", error |-> "UnexpectedError"]
JsonError == [kind |-> "Err", error |-> "JsonError"]

\* One pass through the body of a receive loop: the messages it hands to
\* ws.send, and either "continue" or the value the call returns.
Continue(send) == [ret |-> "continue", send |-> send]
Return(res, send) == [ret |-> "return", res |-> res, send |-> send]

----------------------------------------------------------------------------
(* LiveChatClient: src/src/live_chat.rs *)

\* format!("{chatroom_id}") of a u64.
RECURSIVE to_decimal(_)
to_decimal(n) ==
    LET digit == <<"0","1","2","3","4","5","6","7","8","9">>[(n % 10) + 1]
    IN IF n < 10 THEN <<digit>> ELSE to_decimal(n \div 10) \o <<digit>>

\* The channel without its version: format!("chatrooms.{chatroom_id}").
channel_name_without_version(chatroom_id) == S_chatrooms \o to_decimal(chatroom_id)

\* format!("chatrooms.{chatroom_id}.v2")
channel_name(chatroom_id) == S_chatrooms \o to_decimal(chatroom_id) \o S_v2

\* json!({"event": "pusher:subscribe", "data": {"auth": "", "channel": channel}})
subscribe(channel) ==
    JObj([event |-> JStr(S_pusher_subscribe),
          data |-> JObj([auth |-> JStr(<<>>), channel |-> JStr(channel)])])

\* json!({"event": "pusher:pong", "data": {}})
pong == JObj([event |-> JStr(S_pusher_pong), data |-> JObj(NoFields)])

\* The pong envelope sent in place of the ping.
ping_is_pong == JObj([event |-> JStr(S_pusher_pong), data |-> JObj(NoFields)])

\* json!({"event": "pusher:ping", "data": {}})
ping == JObj([event |-> JStr(S_pusher_ping), data |-> JObj(NoFields)])

\* Only the "pusher:" prefix is tested.
is_internal_one_prefix(event) == starts_with(event, S_pusher_prefix)

\* Every envelope is kept from the caller.
is_internal_everything(event) == TRUE

\* The events next_event keeps to itself.
is_internal(event) ==
    \/ starts_with(event, S_pusher_prefix)
    \/ starts_with(event, S_pusher_internal_prefix)

\* The answer to a transport-level ping.
ping_reply(frame) == Pong(frame.payload)

\* wait_for_event without its arm for pings: they fall to `_ => continue`.
wait_for_event_without_ping_arm(item, event_name, sendOk) ==
    IF item.type = "End" THEN Return(UnexpectedError, <<>>)
    ELSE IF item.type = "Err" THEN Return(WebSocketError, <<>>)
    ELSE IF item.type = "Text" THEN
        LET msg == PusherMessage(item.text) IN
        IF ~msg.ok THEN Continue(<<>>)
        ELSE IF msg.event = event_name THEN Return(OkUnit, <<>>)
        ELSE Continue(<<>>)
    ELSE Continue(<<>>)

\* wait_for_event that takes a Close frame for the end of the stream.
wait_for_event_fails_on_close(item, event_name, sendOk) ==
    IF item.type \in {"End", "Close"} THEN Return(UnexpectedError, <<>>)
    ELSE IF item.type = "Err" THEN Return(WebSocketError, <<>>)
    ELSE IF item.type = "Text" THEN
        LET msg == PusherMessage(item.text) IN
        IF ~msg.ok THEN Continue(<<>>)
        ELSE IF msg.event = event_name THEN Return(OkUnit, <<>>)
        ELSE Continue(<<>>)
    ELSE IF item.type = "Ping" THEN
        IF sendOk THEN Continue(<<ping_reply(item)>>)
        ELSE Return(WebSocketError, <<ping_reply(item)>>)
    ELSE Continue(<<>>)

\* wait_for_event with the pusher:ping branch of next_event.
wait_for_event_answers_pusher_ping(item, event_name, sendOk) ==
    IF item.type = "End" THEN Return(UnexpectedError, <<>>)
    ELSE IF item.type = "Err" THEN Return(WebSocketError, <<>>)
    ELSE IF item.type = "Text" THEN
        LET msg == PusherMessage(item.text) IN
        IF ~msg.ok THEN Continue(<<>>)
        ELSE IF msg.event = event_name THEN Return(OkUnit, <<>>)
        ELSE IF msg.event = S_pusher_ping THEN
            IF sendOk THEN Continue(<<Text(to_string(pong))>>)
            ELSE Return(WebSocketError, <<Text(to_string(pong))>>)
        ELSE Continue(<<>>)
    ELSE IF item.type = "Ping" THEN
        IF sendOk THEN Continue(<<ping_reply(item)>>)
        ELSE Return(WebSocketError, <<ping_reply(item)>>)
    ELSE Continue(<<>>)

\* One pass of the loop of wait_for_event on the stream item `item`;
\* sendOk tells whether a ws.send made in this pass succeeds.
wait_for_event(item, event_name, sendOk) ==
    IF item.type = "End" THEN Return(UnexpectedError, <<>>)
    ELSE IF item.type = "Err" THEN Return(WebSocketError, <<>>)
    ELSE IF item.type = "Text" THEN
        LET msg == PusherMessage(item.text) IN
        IF ~msg.ok THEN Continue(<<>>)
        ELSE IF msg.event = event_name THEN Return(OkUnit, <<>>)
        ELSE Continue(<<>>)
    ELSE IF item.type = "Ping" THEN
        IF sendOk THEN Continue(<<ping_reply(item)>>)
        ELSE Return(WebSocketError, <<ping_reply(item)>>)
    ELSE Continue(<<>>)

\* The end of the stream reported as in wait_for_event.
on_stream_end_is_error == Return(UnexpectedError, <<>>)

\* next_event when the stream has ended: `else { return Ok(None) }`.
on_stream_end == Return(OkNone, <<>>)

\* No arm for Close: it falls to `_ => continue`.
on_close_continues == Continue(<<>>)

\* next_event on a Close frame: `Message::Close(_) => return Ok(None)`.
on_close == Return(OkNone, <<>>)

\* A ping taken for the end of the session:
\* `Message::Close(_) | Message::Ping(_) => return Ok(None)`.
on_ping_returns_none(item, sendOk) == Return(OkNone, <<>>)

\* An idle limit: the call gives up on a ping once it has answered it.
on_ping_gives_up(item, sendOk) ==
    IF sendOk THEN Return(UnexpectedError, <<ping_reply(item)>>)
    ELSE Return(WebSocketError, <<ping_reply(item)>>)

\* next_event on a transport-level ping: send the pong, then `continue`.
on_ping(item, sendOk) ==
    IF sendOk THEN Continue(<<ping_reply(item)>>)
    ELSE Return(WebSocketError, <<ping_reply(item)>>)

\* `serde_json::from_str(&text)?`: the decoding error is returned.
on_undecodable_is_error == Return(JsonError, <<>>)

\* next_event on a text that is no PusherMessage: `Err(_) => continue`.
on_undecodable == Continue(<<>>)

\* A failed read taken for the end of the stream: `Err(_) => return Ok(None)`.
on_receive_error_ends == Return(OkNone, <<>>)

\* next_event when ws.next() yields an error:
\* `frame.map_err(|e| KickApiError::WebSocketError(...))?`.
on_receive_error == Return(WebSocketError, <<>>)

\* One pass of the loop of next_event.
next_event(item, sendOk) ==
    IF item.type = "End" THEN on_stream_end
    ELSE IF item.type = "Err" THEN on_receive_error
    ELSE IF item.type = "Close" THEN on_close
    ELSE IF item.type = "Ping" THEN on_ping(item, sendOk)
    ELSE IF item.type = "Text" THEN
        LET pusher_msg == PusherMessage(item.text) IN
        IF ~pusher_msg.ok THEN on_undecodable
        ELSE IF pusher_msg.event = S_pusher_ping THEN
            IF sendOk THEN Continue(<<Text(to_string(pong))>>)
            ELSE Return(WebSocketError, <<Text(to_string(pong))>>)
        ELSE IF is_internal(pusher_msg.event) THEN Continue(<<>>)
        ELSE Return(OkSome(PusherEvent(pusher_msg.event, pusher_msg.channel,
                                       pusher_msg.data)), <<>>)
    ELSE Continue(<<>>)

\* `serde_json::from_str(&event.data)?`: an undecodable chat message is
\* returned as an error.
next_message_filter_json_error(r) ==
    IF r.kind = "Err" THEN Return(r, <<>>)
    ELSE IF r.kind = "OkNone" THEN Return(OkNone, <<>>)
    ELSE LET event == r.v IN
         IF event.event # S_ChatMessageEvent THEN Continue(<<>>)
         ELSE LET msg == LiveChatMessage(event.data) IN
              IF ~msg.ok THEN Return(JsonError, <<>>)
              ELSE Return(OkSome(msg), <<>>)

\* An undecodable chat message ends the stream: `Err(_) => return Ok(None)`.
next_message_filter_stops(r) ==
    IF r.kind = "Err" THEN Return(r, <<>>)
    ELSE IF r.kind = "OkNone" THEN Return(OkNone, <<>>)
    ELSE LET event == r.v IN
         IF event.event # S_ChatMessageEvent THEN Continue(<<>>)
         ELSE LET msg == LiveChatMessage(event.data) IN
              IF ~msg.ok THEN Return(OkNone, <<>>)
              ELSE Return(OkSome(msg), <<>>)

\* What next_message does with a value returned by next_event: pass None
\* and errors on, skip other events and undecodable chat messages.
next_message_filter(r) ==
    IF r.kind = "Err" THEN Return(r, <<>>)
    ELSE IF r.kind = "OkNone" THEN Return(OkNone, <<>>)
    ELSE LET event == r.v IN
         IF event.event # S_ChatMessageEvent THEN Continue(<<>>)
         ELSE LET msg == LiveChatMessage(event.data) IN
              IF ~msg.ok THEN Continue(<<>>)
              ELSE Return(OkSome(msg), <<>>)

\* One pass of the inner loop of next_message: a pass of next_event, and
\* the filter when next_event returns.
next_message(item, sendOk) ==
    LET e == next_event(item, sendOk) IN
    IF e.ret = "continue" THEN e
    ELSE LET f == next_message_filter(e.res) IN
         IF f.ret = "continue" THEN Continue(e.send)
         ELSE Return(f.res, e.send)

----------------------------------------------------------------------------
(* The peer: the frames the relay may send *)

S_hi == <<"h","i">>
S_yo == <<"y","o">>
S_bob == <<"b","o","b">>
S_message == <<"m","e","s","s","a","g","e">>
S_id1 == <<"1">>
S_id2 == <<"2">>
S_color == <<"#","f","f","f">>

\* Chat rooms given to connect.
RoomIds == {7, 27670567}

\* The text "{}".
EmptyObjectText == Doc(JObj(NoFields))

\* {"event": event, "data": "<data>"} and the same with a channel.
Envelope(event, data) ==
    Doc(JObj([event |-> JStr(event), data |-> JStr(data)]))
EnvelopeOn(event, channel, data) ==
    Doc(JObj([event |-> JStr(event), channel |-> JStr(channel), data |-> JStr(data)]))

\* The inner document of a chat message.
ChatDataFrom(id, content, sender_id, badges) ==
    Doc(JObj([id |-> JStr(id),
              content |-> JStr(content),
              type |-> JStr(S_message),
              sender |-> JObj([id |-> JNum(sender_id),
                               username |-> JStr(S_bob),
                               identity |-> JObj([color |-> JStr(S_color),
                                                  badges |-> JArr(badges)])])]))
ChatData(id, content) == ChatDataFrom(id, content, <<"5">>, <<>>)
\* A badge with a count.
Badge(count) == JObj([type |-> JStr(S_message), text |-> JStr(S_hi), count |-> JNum(count)])
\* Valid JSON that is no chat message: the sender is missing.
ChatDataNoSender ==
    Doc(JObj([id |-> JStr(S_id1), content |-> JStr(S_hi), type |-> JStr(S_message)]))

ExampleRoom == 27670567
PeerChannel == channel_name(ExampleRoom)

F_established == Text(Envelope(S_connection_established, EmptyObjectText))
F_subscribed == Text(EnvelopeOn(S_subscription_succeeded, PeerChannel, EmptyObjectText))
F_pusher_ping == Text(Envelope(S_pusher_ping, EmptyObjectText))
\* {"event": "pusher:ping", "data": {}}: data is an object, not a string.
F_pusher_ping_object ==
    Text(Doc(JObj([event |-> JStr(S_pusher_ping), data |-> JObj(NoFields)])))
F_chat_hi == Text(EnvelopeOn(S_ChatMessageEvent, PeerChannel, ChatData(S_id1, S_hi)))
F_chat_yo == Text(EnvelopeOn(S_ChatMessageEvent, PeerChannel, ChatData(S_id2, S_yo)))
F_chat_not_json == Text(EnvelopeOn(S_ChatMessageEvent, PeerChannel, NotJson))
F_chat_no_sender == Text(EnvelopeOn(S_ChatMessageEvent, PeerChannel, ChatDataNoSender))
F_banned == Text(Envelope(S_UserBannedEvent, EmptyObjectText))
F_member_added == Text(EnvelopeOn(S_member_added, PeerChannel, EmptyObjectText))
F_pusher_error == Text(Envelope(S_pusher_error, EmptyObjectText))
F_pusher_bare == Text(Envelope(S_pusher_bare, EmptyObjectText))
F_not_json == Text(NotJson)
\* ["App\\Events\\UserBannedEvent", "{}"]: an envelope written as an array.
F_banned_array == Text(Doc(JArr(<<JStr(S_UserBannedEvent), JStr(EmptyObjectText)>>)))
\* A chat message whose sender is written as an array, slug null.
ChatDataSenderArray ==
    Doc(JObj([id |-> JStr(S_id2),
              content |-> JStr(S_yo),
              type |-> JStr(S_message),
              sender |-> JArr(<<JNum(<<"5">>), JStr(S_bob), JNull,
                                JObj([color |-> JStr(S_color), badges |-> JArr(<<>>)])>>)]))
F_chat_sender_array ==
    Text(EnvelopeOn(S_ChatMessageEvent, PeerChannel, ChatDataSenderArray))
\* Chat messages whose numbers are at or past the end of their type, or
\* are no unsigned integers.
F_chat_id_max ==
    Text(EnvelopeOn(S_ChatMessageEvent, PeerChannel, ChatDataFrom(S_id1, S_hi, U64_MAX, <<>>)))
F_chat_id_overflow ==
    Text(EnvelopeOn(S_ChatMessageEvent, PeerChannel, ChatDataFrom(S_id1, S_hi, TwoTo64, <<>>)))
F_chat_id_negative ==
    Text(EnvelopeOn(S_ChatMessageEvent, PeerChannel, ChatDataFrom(S_id1, S_hi, <<"-", "5">>, <<>>)))
F_chat_badge_max ==
    Text(EnvelopeOn(S_ChatMessageEvent, PeerChannel,
                    ChatDataFrom(S_id1, S_hi, <<"5">>, <<Badge(U32_MAX)>>)))
F_chat_badge_overflow ==
    Text(EnvelopeOn(S_ChatMessageEvent, PeerChannel,
                    ChatDataFrom(S_id1, S_hi, <<"5">>, <<Badge(TwoTo32)>>)))

\* The frames an unscripted peer chooses from at each step.
PeerFrames ==
    { F_established, F_subscribed, Ping(<<1>>), F_pusher_ping, F_not_json,
      F_chat_hi, F_chat_not_json, F_banned, F_member_added, Close }

\* Scripted peers.  The round trip of the specification, with either kind
\* of ping:
ScenarioPings == { Ping(<<1>>), Ping(<<2>>), F_pusher_ping }
RoundTrips ==
    { <<F_established, F_subscribed, p, F_chat_hi, F_member_added, Close>> :
        p \in ScenarioPings }
\* sessions that receive three frames after a clean handshake:
DeepFrames ==
    { Ping(<<2>>), F_pusher_ping, F_chat_hi, F_chat_yo, F_chat_not_json,
      F_chat_no_sender, F_pusher_bare }
DeepSessions ==
    { <<F_established, F_subscribed, a, b, c>> : a, b, c \in DeepFrames }
\* and sessions that meet one of the rarer frames, a text that is not JSON,
\* a chat message and the end of the stream:
RareFrames ==
    { F_pusher_ping_object, F_pusher_error, Binary(<<1>>), Pong(<<1>>), Text(Doc(JNull)),
      F_banned_array, F_chat_sender_array, F_chat_id_max, F_chat_id_overflow,
      F_chat_id_negative, F_chat_badge_max, F_chat_badge_overflow }
RareSessions ==
    { <<F_established, F_subscribed, f, F_not_json, F_chat_yo, StreamEnd>> :
        f \in RareFrames }
\* and sessions whose transport breaks after two pings and an event:
FailingSessions ==
    { <<F_established, F_subscribed, p, q, F_banned, StreamErr, StreamEnd>> :
        p, q \in { Ping(<<2>>), F_pusher_ping } }
\* and sessions whose handshake is interleaved with other frames: one that
\* succeeds and goes on with two events, one that meets a Close frame:
NoisyHandshakes ==
    { <<F_banned, F_established, F_pusher_error, F_chat_hi, F_subscribed,
        F_chat_yo, F_banned, StreamEnd>>,
      <<F_pusher_error, F_established, F_not_json, F_pusher_error, Close, StreamEnd>> }
Scripts ==
    RoundTrips \cup DeepSessions \cup RareSessions \cup FailingSessions \cup NoisyHandshakes

\* An unscripted peer, and a peer that still has `rest` to deliver.
\* The caller of a deep, rare or failing session only receives: it calls
\* no send_ping and no close and drops no call (`quiet`).
QuietSessions == DeepSessions \cup RareSessions \cup FailingSessions
Unscripted == [scripted |-> FALSE, rest |-> <<>>, quiet |-> FALSE]
Scripted(rest) == [scripted |-> TRUE, rest |-> rest, quiet |-> rest \in QuietSessions]

----------------------------------------------------------------------------
(* State *)

VARIABLES
    phase,         \* where connect is: "start", "connecting" (connect is
                   \* suspended in connect_async), in a handshake wait of
                   \* connect, "failed" (connect returned an error),
                   \* "abandoned" (connect was dropped), "ready" (connect
                   \* returned the session)
    calls,         \* the calls in flight on the session, in the order they
                   \* were made: each is a future that is alive, with the
                   \* call it is of ("next_event", "next_message",
                   \* "send_ping", "close"), the items read before it was
                   \* made, and whether it is suspended in a send (ws.send
                   \* or ws.close) or in ws.next()
    chatroom_id,   \* the argument of connect
    ws,            \* the stream: "unopened", "open", "closing" (close() has
                   \* sent the Close frame), "peer_closed" (a Close frame has
                   \* been read), "ended" (it returned None or an error),
                   \* "dropped" (connect returned an error or was dropped
                   \* after opening it)
    peer,          \* the relay: unscripted, or the items it still delivers
    received,      \* the items ws.next() has yielded, in order
    sent,          \* the messages handed to ws.send, in order: the message,
                   \* whether the send succeeded, the items read until then,
                   \* and whether a receive loop or send_ping made the send
    connectResult, \* what connect returned, and after how many items
    results,       \* what the calls on the session returned, in order: the
                   \* call, the items read before it, the item it returned
                   \* on (0 for a call that reads none), the value
    dropped,       \* the calls whose future was dropped while suspended,
                   \* whether in ws.next() or in a send, and whether the
                   \* sink had taken the message of that send by then
    connectInSend  \* connect is suspended in a ws.send

liveVars == <<phase, calls, chatroom_id, ws, peer, received, sent, connectResult,
              results, dropped, connectInSend>>

\* Where the caller is: in connect, or in the call in flight on the
\* session, or "ready" when the session exists and no call is in flight.
pc ==
    IF phase = "ready" /\ calls # <<>> THEN calls[1].op ELSE phase

\* The items read before the call in flight was made.
callFrom == IF calls # <<>> THEN calls[1].from ELSE 0

\* connect, or the call in flight, is suspended in a send.
inSend ==
    IF phase = "ready" THEN calls # <<>> /\ calls[1].inSend ELSE connectInSend

\* The token helpers of models/user.rs and the retry helper of http.rs
\* are checked on their own; each has its state.
VARIABLES
    token,         \* a TokenIntrospection: its scope and exp fields
    now,           \* the system clock, in seconds since the Unix epoch
    tokenResult,   \* the last call on the token and what it returned
    request,       \* the argument of send_with_retry: whether it builds and
                   \* whether its body can be cloned
    rpc,           \* where send_with_retry is: "start", suspended in
                   \* "execute" or in "sleep", "done" (it returned),
                   \* "dropped" (its future was dropped), "unreachable"
    attempt,       \* the loop variable of send_with_retry
    executed,      \* what client.execute answered, in order
    slept,         \* the seconds of each sleep that is over, in order
    retryResult    \* what send_with_retry returned

tokenVars == <<token, now, tokenResult>>
retryVars == <<request, rpc, attempt, executed, slept, retryResult>>
vars == <<liveVars, tokenVars, retryVars>>

NoCall == [op |-> "none"]

\* No token is looked at, send_with_retry is not called, connect is not
\* called.
TokenIdle ==
    /\ token = [scope |-> None, exp |-> None]
    /\ now = 0
    /\ tokenResult = NoCall
RetryIdle ==
    /\ request = [builds |-> TRUE, clonable |-> TRUE]
    /\ rpc = "start"
    /\ attempt = 0
    /\ executed = <<>>
    /\ slept = <<>>
    /\ retryResult = [kind |-> "Pending"]

Pending == [kind |-> "Pending"]

\* What the stream can yield next.  tungstenite delivers no frame after a
\* Close frame: the next read ends the stream or fails; a stream that has
\* ended or failed yields None from then on.  After close() the stream
\* still yields what the peer sent, until the peer's own Close frame.
CanYield(state, item) ==
    IF state \in {"open", "closing"} THEN TRUE
    ELSE IF state = "peer_closed" THEN item.type \in {"Err", "End"}
    ELSE IF state = "ended" THEN item.type = "End"
    ELSE FALSE

StreamAfter(state, item) ==
    IF item.type = "Close" THEN "peer_closed"
    ELSE IF item.type \in {"Err", "End"} THEN "ended"
    ELSE state

\* The calls that read nothing made so far, and the dropped ones.
ExtraCalls ==
    Len(SelectSeq(results, LAMBDA r : r.op \in {"send_ping", "close"})) + Len(dropped)

\* What a run is bounded in: the items read and the extra calls.
Steps == Len(received) + ExtraCalls
MayCallExtra ==
    /\ ExtraCalls < MaxExtraCalls
    /\ peer.scripted \/ Steps < MaxFrames
    /\ ~peer.quiet

\* The relay delivers `item` to a ws.next().
Yield(item) ==
    /\ peer.scripted \/ Steps < MaxFrames
    /\ CanYield(ws, item)
    /\ received' = Append(received, item)
    /\ peer' = IF peer.scripted THEN [peer EXCEPT !.rest = Tail(@)] ELSE peer

\* ws.next() yields `item` to a call on the session, whose stream stays
\* with the client.
Poll(item) ==
    /\ Yield(item)
    /\ ws' = StreamAfter(ws, item)

PeerItems == PeerFrames \cup {StreamErr, StreamEnd}
Offered ==
    IF ~peer.scripted THEN PeerItems
    ELSE IF peer.rest = <<>> THEN {}
    ELSE {Head(peer.rest)}

\* ws.send(m) for each m of `send`, all made after `n` items were read.
Sends(send, ok, n) ==
    [i \in 1..Len(send) |-> [msg |-> send[i], ok |-> ok, at |-> n, by |-> "receive"]]

\* connect has not been called.  The relay plays a round trip for any
\* room, and everything else for the room of the example.
Init ==
    /\ phase = "start"
    /\ calls = <<>>
    /\ chatroom_id \in RoomIds
    /\ ws = "unopened"
    /\ peer \in {Unscripted} \cup { Scripted(s) : s \in Scripts }
    /\ chatroom_id # ExampleRoom =>
          (peer.scripted /\ peer.rest \in RoundTrips /\ peer.rest[3] = F_pusher_ping)
    /\ received = <<>>
    /\ sent = <<>>
    /\ connectResult = [res |-> Pending, at |-> 0]
    /\ results = <<>>
    /\ dropped = <<>>
    /\ connectInSend = FALSE
    /\ TokenIdle
    /\ RetryIdle

----------------------------------------------------------------------------
(* connect *)

\* connect is called and is suspended in connect_async(PUSHER_URL).
StartConnect ==
    /\ phase = "start"
    /\ phase' = "connecting"
    /\ UNCHANGED <<tokenVars, retryVars>>
    /\ UNCHANGED <<calls, chatroom_id, ws, peer, received, sent, connectResult, results,
                   dropped, connectInSend>>

\* connect_async(PUSHER_URL): the stream opens, or connect fails.
Connect ==
    /\ phase = "connecting"
    /\ \E opened \in BOOLEAN :
        IF opened
        THEN /\ phase' = "wait_established"
             /\ ws' = "open"
             /\ UNCHANGED connectResult
        ELSE /\ phase' = "failed"
             /\ connectResult' = [res |-> WebSocketError, at |-> 0]
             /\ UNCHANGED ws
    /\ UNCHANGED <<tokenVars, retryVars>>
    /\ UNCHANGED <<calls, chatroom_id, peer, received, sent, results, dropped,
                   connectInSend>>

\* connect without its second wait: the session is returned as soon as
\* the subscribe command is sent.
connect_resume_without_second_wait(stage, r, channel, subOk) ==
    IF r.kind = "Err" THEN [pc |-> "failed", res |-> r, send |-> <<>>]
    ELSE IF stage = "wait_established" /\ ~subOk
        THEN [pc |-> "failed", res |-> WebSocketError,
              send |-> <<Text(to_string(subscribe(channel)))>>]
    ELSE [pc |-> "ready", res |-> OkUnit,
          send |-> <<Text(to_string(subscribe(channel)))>>]

\* connect that subscribes again when its second wait fails.
connect_resume_resubscribes(stage, r, channel, subOk) ==
    IF r.kind = "Err" /\ stage = "wait_established"
        THEN [pc |-> "failed", res |-> r, send |-> <<>>]
    ELSE IF r.kind = "Err" \/ stage = "wait_established" THEN
        IF subOk
        THEN [pc |-> "wait_subscribed", res |-> Pending,
              send |-> <<Text(to_string(subscribe(channel)))>>]
        ELSE [pc |-> "failed", res |-> WebSocketError,
              send |-> <<Text(to_string(subscribe(channel)))>>]
    ELSE [pc |-> "ready", res |-> OkUnit, send |-> <<>>]

\* connect that does not look at the result of the subscribe send:
\* `let _ = ws.send(..).await;`.
connect_resume_ignores_subscribe_failure(stage, r, channel, subOk) ==
    IF r.kind = "Err" THEN [pc |-> "failed", res |-> r, send |-> <<>>]
    ELSE IF stage = "wait_established"
        THEN [pc |-> "wait_subscribed", res |-> Pending,
              send |-> <<Text(to_string(subscribe(channel)))>>]
    ELSE [pc |-> "ready", res |-> OkUnit, send |-> <<>>]

\* What connect does when the wait of `stage` returns r: an error ends
\* connect; after the first wait it sends the subscribe command and starts
\* the second wait; after the second wait it returns the session.
connect_resume(stage, r, channel, subOk) ==
    IF r.kind = "Err" THEN [pc |-> "failed", res |-> r, send |-> <<>>]
    ELSE IF stage = "wait_established" THEN
        IF subOk
        THEN [pc |-> "wait_subscribed", res |-> Pending,
              send |-> <<Text(to_string(subscribe(channel)))>>]
        ELSE [pc |-> "failed", res |-> WebSocketError,
              send |-> <<Text(to_string(subscribe(channel)))>>]
    ELSE [pc |-> "ready", res |-> OkUnit, send |-> <<>>]

\* The event name each wait of connect is for.
awaited(stage) ==
    IF stage = "wait_established" THEN S_connection_established
    ELSE S_subscription_succeeded

\* What connect hands to ws.send in the pass of its wait on `item`: the
\* pong of wait_for_event, or the subscribe command after the first wait.
connect_sends(stage, item, channel) ==
    LET w == wait_for_event(item, awaited(stage), TRUE)
    IN IF w.ret = "continue" THEN w.send
       ELSE w.send \o connect_resume(stage, w.res, channel, TRUE).send

\* connect from the pass of a wait on `item` to its next suspension or to
\* its return; n items have been read and the stream is in state `stream`.
\* The stream is a local of connect until the client is built from it: a
\* connect that returns an error drops it.
ConnectPass(item, n, sendOk, subOk, stream) ==
    LET w == wait_for_event(item, awaited(phase), sendOk)
    IN IF w.ret = "continue"
       THEN /\ sent' = sent \o Sends(w.send, sendOk, n)
            /\ ws' = stream
            /\ UNCHANGED <<phase, connectResult>>
       ELSE LET c == connect_resume(phase, w.res, channel_name(chatroom_id), subOk)
            IN /\ sent' = sent \o Sends(w.send, sendOk, n) \o Sends(c.send, subOk, n)
               /\ phase' = c.pc
               /\ ws' = IF c.pc = "failed" THEN "dropped" ELSE stream
               /\ connectResult' =
                     IF c.res = Pending THEN connectResult
                     ELSE [res |-> c.res, at |-> n]

\* connect is suspended in the ws.next() of wait_for_event and the stream
\* yields an item.  A pass that sends is suspended again, in its ws.send;
\* a read error or the end of the stream makes connect return an error,
\* and its stream is dropped.
ConnectWait ==
    /\ phase \in {"wait_established", "wait_subscribed"}
    /\ ~connectInSend
    /\ \E item \in Offered :
        /\ Yield(item)
        /\ IF connect_sends(phase, item, channel_name(chatroom_id)) # <<>>
           THEN /\ connectInSend' = TRUE
                /\ ws' = StreamAfter(ws, item)
                /\ UNCHANGED <<phase, connectResult, sent>>
           ELSE /\ connectInSend' = FALSE
                /\ ConnectPass(item, Len(received) + 1, TRUE, TRUE, StreamAfter(ws, item))
    /\ UNCHANGED <<tokenVars, retryVars>>
    /\ UNCHANGED <<calls, chatroom_id, results, dropped>>

\* connect is suspended in a ws.send, of a pong or of the subscribe
\* command, and the transport takes the message or refuses it.  A refused
\* send makes connect return an error, and its stream is dropped.
ConnectSend ==
    /\ phase \in {"wait_established", "wait_subscribed"}
    /\ connectInSend
    /\ connectInSend' = FALSE
    /\ \E sendOk \in BOOLEAN :
          ConnectPass(received[Len(received)], Len(received), sendOk, sendOk, ws)
    /\ UNCHANGED <<tokenVars, retryVars>>
    /\ UNCHANGED <<calls, chatroom_id, peer, received, results, dropped>>

\* The caller drops the future of connect while it is suspended, in
\* connect_async, in ws.next() or in ws.send: the stream, which the future
\* owns once it is open, is dropped with it and no client exists.  A send
\* waits for the sink to be ready, hands it the message and waits for the
\* flush: when it is dropped the sink has taken the message or has not.
DropConnect ==
    /\ phase \in {"connecting", "wait_established", "wait_subscribed"}
    /\ phase' = "abandoned"
    /\ ws' = IF phase = "connecting" THEN ws ELSE "dropped"
    /\ connectInSend' = FALSE
    /\ \E taken \in IF connectInSend THEN BOOLEAN ELSE {FALSE} :
          dropped' = Append(dropped, [op |-> "connect", from |-> 0, at |-> Len(received),
                                      in |-> IF phase = "connecting" THEN "connect_async"
                                             ELSE IF connectInSend THEN "send" ELSE "next",
                                      taken |-> taken])
    /\ UNCHANGED <<tokenVars, retryVars>>
    /\ UNCHANGED <<calls, chatroom_id, peer, received, sent, connectResult, results>>

----------------------------------------------------------------------------
(* The calls on a session *)

\* The sequence without its c-th element.
Without(seq, c) == SubSeq(seq, 1, c - 1) \o SubSeq(seq, c + 1, Len(seq))

\* The client is borrowed: the future of a call is alive.  Every call
\* takes `&mut self`, and its future holds that borrow until it returns
\* or is dropped.
Borrowed == calls # <<>>

\* The call `op` is made on the session: it is in flight, suspended in its
\* first await, a send or not.  It can be made when the client is not
\* borrowed.
Start(op, send) ==
    /\ phase = "ready"
    /\ ~Borrowed
    /\ calls' = Append(calls, [op |-> op, from |-> Len(received), inSend |-> send])
    /\ UNCHANGED <<tokenVars, retryVars>>
    /\ UNCHANGED <<phase, chatroom_id, ws, peer, received, sent, connectResult, results,
                   dropped, connectInSend>>

\* The call c in flight returns `res` on item `to`.
Returns(c, to, res) ==
    /\ calls' = Without(calls, c)
    /\ results' = Append(results,
          [op |-> calls[c].op, from |-> calls[c].from, to |-> to, res |-> res])

\* The pass of the call c on the item the stream has just yielded.  A
\* pass that sends is suspended in its ws.send; any other pass goes on to
\* the next ws.next() or returns.
Receive(c, r) ==
    /\ UNCHANGED sent
    /\ IF r.send # <<>>
       THEN /\ calls' = [calls EXCEPT ![c].inSend = TRUE]
            /\ UNCHANGED results
       ELSE IF r.ret = "continue"
            THEN UNCHANGED <<calls, results>>
            ELSE Returns(c, Len(received) + 1, r.res)

\* The ws.send of the pass of the call c on the last item read completes,
\* the message taken by the transport or refused; the pass goes on to the
\* next ws.next() or returns.
Sent(c, r, sendOk) ==
    /\ sent' = sent \o Sends(r.send, sendOk, Len(received))
    /\ IF r.ret = "continue"
       THEN /\ calls' = [calls EXCEPT ![c].inSend = FALSE]
            /\ UNCHANGED results
       ELSE Returns(c, Len(received), r.res)

\* The calls of `op` in flight that are suspended in a send, or in
\* ws.next().
Suspended(op, send) ==
    { c \in 1..Len(calls) : calls[c].op = op /\ calls[c].inSend = send }

\* next_event is called: it is suspended in self.ws.next().
StartNextEvent ==
    /\ peer.scripted \/ Steps < MaxFrames
    /\ Start("next_event", FALSE)

\* next_event is suspended in ws.next() and the stream yields an item.
NextEvent ==
    /\ \E c \in Suspended("next_event", FALSE) :
        \E item \in Offered :
            /\ Poll(item)
            /\ \E r \in {next_event(item, TRUE)} : Receive(c, r)
    /\ UNCHANGED <<tokenVars, retryVars>>
    /\ UNCHANGED <<phase, chatroom_id, connectResult, dropped, connectInSend>>

\* next_event is suspended in the ws.send of a pong.
NextEventSend ==
    /\ \E c \in Suspended("next_event", TRUE) :
        \E sendOk \in BOOLEAN :
            \E r \in {next_event(received[Len(received)], sendOk)} : Sent(c, r, sendOk)
    /\ UNCHANGED <<tokenVars, retryVars>>
    /\ UNCHANGED <<phase, chatroom_id, ws, peer, received, connectResult, dropped,
                   connectInSend>>

\* next_message is called: it is suspended in the ws.next() of its
\* next_event.
StartNextMessage ==
    /\ peer.scripted \/ Steps < MaxFrames
    /\ Start("next_message", FALSE)

\* next_message is suspended in the ws.next() of its next_event and the
\* stream yields an item.
NextMessage ==
    /\ \E c \in Suspended("next_message", FALSE) :
        \E item \in Offered :
            /\ Poll(item)
            /\ \E r \in {next_message(item, TRUE)} : Receive(c, r)
    /\ UNCHANGED <<tokenVars, retryVars>>
    /\ UNCHANGED <<phase, chatroom_id, connectResult, dropped, connectInSend>>

\* next_message is suspended in the ws.send of a pong of its next_event.
NextMessageSend ==
    /\ \E c \in Suspended("next_message", TRUE) :
        \E sendOk \in BOOLEAN :
            \E r \in {next_message(received[Len(received)], sendOk)} : Sent(c, r, sendOk)
    /\ UNCHANGED <<tokenVars, retryVars>>
    /\ UNCHANGED <<phase, chatroom_id, ws, peer, received, connectResult, dropped,
                   connectInSend>>

\* send_ping: one ws.send of the ping envelope; its result is the result
\* of the send.
send_ping(sendOk) ==
    Return(IF sendOk THEN OkUnit ELSE WebSocketError, <<Text(to_string(ping))>>)

\* send_ping through a shared reference, `send_ping(&self)` on a stream
\* behind a lock: it can be called while the future of another call is
\* alive, and the two calls are in flight together.
StartSendPing_shared ==
    /\ MayCallExtra
    /\ phase = "ready"
    /\ calls' = Append(calls, [op |-> "send_ping", from |-> Len(received), inSend |-> TRUE])
    /\ UNCHANGED <<tokenVars, retryVars>>
    /\ UNCHANGED <<phase, chatroom_id, ws, peer, received, sent, connectResult, results,
                   dropped, connectInSend>>

\* send_ping is called on the session: it is suspended in its ws.send.  It
\* takes `&mut self`, as every call does.
StartSendPing ==
    /\ MayCallExtra
    /\ Start("send_ping", TRUE)

\* send_ping is suspended in its ws.send and the send completes.  The call
\* reads no item.
SendPing ==
    /\ \E c \in Suspended("send_ping", TRUE) :
        \E sendOk \in BOOLEAN :
            LET r == send_ping(sendOk)
                n == Len(received)
            IN /\ sent' = sent \o [i \in 1..Len(r.send) |->
                      [msg |-> r.send[i], ok |-> sendOk, at |-> n, by |-> "send_ping"]]
               /\ calls' = Without(calls, c)
               /\ results' = Append(results,
                      [op |-> "send_ping", from |-> n, to |-> 0, res |-> r.res])
    /\ UNCHANGED <<tokenVars, retryVars>>
    /\ UNCHANGED <<phase, chatroom_id, ws, peer, received, connectResult, dropped,
                   connectInSend>>

\* close that does not look at the result of the transport:
\* `let _ = self.ws.close(None).await; Ok(())`.
close_ignores_error(closeOk) == Return(OkUnit, <<Close>>)

\* close: one ws.close(None), which hands a Close frame to the transport;
\* its result is the result of that close.
close(closeOk) ==
    Return(IF closeOk THEN OkUnit ELSE WebSocketError, <<Close>>)

\* close is called on the session: it is suspended in ws.close(None).
StartClose ==
    /\ MayCallExtra
    /\ Start("close", TRUE)

\* close is suspended in ws.close(None) and the close completes.  The call
\* reads no item; the client and its stream stay in place.
CloseCall ==
    /\ \E c \in Suspended("close", TRUE) :
        \E closeOk \in BOOLEAN :
            LET r == close(closeOk)
                n == Len(received)
            IN /\ sent' = sent \o [i \in 1..Len(r.send) |->
                      [msg |-> r.send[i], ok |-> closeOk, at |-> n, by |-> "close"]]
               /\ calls' = Without(calls, c)
               /\ results' = Append(results,
                      [op |-> "close", from |-> n, to |-> 0, res |-> r.res])
               /\ ws' = IF closeOk /\ ws = "open" THEN "closing" ELSE ws
    /\ UNCHANGED <<tokenVars, retryVars>>
    /\ UNCHANGED <<phase, chatroom_id, peer, received, connectResult, dropped,
                   connectInSend>>

\* The caller drops the future of a call in flight while it is suspended,
\* in ws.next() or in a send.  A send waits for the sink to be ready, hands
\* it the message and waits for the flush: when it is dropped the sink has
\* taken the message, which then stays with the stream, or has not.  The
\* future only borrows the client: the client and its stream stay in
\* place, and the call returns nothing.
Drop ==
    /\ MayCallExtra
    /\ \E c \in 1..Len(calls) :
        \E taken \in IF calls[c].inSend THEN BOOLEAN ELSE {FALSE} :
            /\ calls' = Without(calls, c)
            /\ dropped' = Append(dropped,
                  [op |-> calls[c].op, from |-> calls[c].from, at |-> Len(received),
                   in |-> IF calls[c].inSend THEN "send" ELSE "next",
                   taken |-> taken])
            /\ ws' = IF calls[c].op = "close" /\ taken /\ ws = "open" THEN "closing" ELSE ws
    /\ UNCHANGED <<tokenVars, retryVars>>
    /\ UNCHANGED <<phase, chatroom_id, peer, received, sent, connectResult, results,
                   connectInSend>>

Next ==
    \/ StartConnect
    \/ Connect
    \/ ConnectWait
    \/ ConnectSend
    \/ DropConnect
    \/ StartNextEvent
    \/ NextEvent
    \/ NextEventSend
    \/ StartNextMessage
    \/ NextMessage
    \/ NextMessageSend
    \/ StartSendPing
    \/ SendPing
    \/ StartClose
    \/ CloseCall
    \/ Drop

Spec == Init /\ [][Next]_vars

\* connect is not called.
LiveIdle ==
    /\ phase = "start"
    /\ calls = <<>>
    /\ chatroom_id = ExampleRoom
    /\ ws = "unopened"
    /\ peer = Unscripted
    /\ received = <<>>
    /\ sent = <<>>
    /\ connectResult = [res |-> Pending, at |-> 0]
    /\ results = <<>>
    /\ dropped = <<>>
    /\ connectInSend = FALSE

----------------------------------------------------------------------------
(* TokenIntrospection: src/src/models/user.rs *)

\* The longest scope string and the latest time of a run.
MaxScopeLen == 4
MaxTime == 2

\* char::is_whitespace: the characters of the Unicode property White_Space.
\* A character is a one-character string; one that TLA+ cannot write in a
\* string is written by its code point.
WhiteSpace ==
    { "\t", "\n", "U+000B", "\f", "\r", " ", "U+0085", "U+00A0", "U+1680",
      "U+2000", "U+2001", "U+2002", "U+2003", "U+2004", "U+2005", "U+2006",
      "U+2007", "U+2008", "U+2009", "U+200A", "U+2028", "U+2029", "U+202F",
      "U+205F", "U+3000" }
is_whitespace(c) == c \in WhiteSpace

\* s.split(' '): the pieces between single spaces, the empty ones included.
RECURSIVE split_at_spaces(_, _, _)
split_at_spaces(s, acc, cur) ==
    IF s = <<>> THEN Append(acc, cur)
    ELSE IF Head(s) = " " THEN split_at_spaces(Tail(s), Append(acc, cur), <<>>)
    ELSE split_at_spaces(Tail(s), acc, Append(cur, Head(s)))
split_on_space(s) == split_at_spaces(s, <<>>, <<>>)

\* str::split_whitespace: the pieces between whitespace, none of them
\* empty.  `acc` holds the pieces found, `cur` the piece being read.
RECURSIVE split_pieces(_, _, _)
split_pieces(s, acc, cur) ==
    IF s = <<>> THEN (IF cur = <<>> THEN acc ELSE Append(acc, cur))
    ELSE IF is_whitespace(Head(s))
        THEN split_pieces(Tail(s), IF cur = <<>> THEN acc ELSE Append(acc, cur), <<>>)
    ELSE split_pieces(Tail(s), acc, Append(cur, Head(s)))
split_whitespace(s) == split_pieces(s, <<>>, <<>>)

\* self.scope.as_ref().map(|s| s.split_whitespace()...collect()).unwrap_or_default()
scopes(self) ==
    IF self.scope.some THEN split_whitespace(self.scope.v) ELSE <<>>

\* self.scopes().iter().any(|s| s == scope)
has_scope(self, scope) ==
    \E i \in 1..Len(scopes(self)) : scopes(self)[i] = scope

\* The comparison written `now > exp`.
is_expired_strict(self, clock) ==
    IF self.exp.some THEN clock > self.exp.v ELSE FALSE

\* `if let Some(exp) = self.exp { now >= exp } else { false }`, with now
\* the seconds of SystemTime::now() since the Unix epoch.
is_expired(self, clock) ==
    IF self.exp.some THEN clock >= self.exp.v ELSE FALSE

\* The inputs: scope strings over a letter, a space and a tab; exp before,
\* at and after the epoch; the scopes asked for.
ScopeChars == {"r", " ", "\t", "\f", "U+00A0"}
RECURSIVE StringsUpTo(_)
StringsUpTo(n) ==
    IF n = 0 THEN {<<>>}
    ELSE LET shorter == StringsUpTo(n - 1)
         IN shorter \cup { Append(t, c) : t \in shorter, c \in ScopeChars }
ScopeInputs == {None} \cup { Some(t) : t \in StringsUpTo(MaxScopeLen) }
ExpInputs == {None} \cup { Some(e) : e \in (0 - 1)..MaxTime }
ScopeQueries == { <<>>, <<"r">>, <<"r", "r">>, <<"r", " ", "r">>, <<"w">> }

TokenInit ==
    /\ token \in [scope : ScopeInputs, exp : ExpInputs]
    /\ now \in 0..MaxTime
    /\ tokenResult = NoCall
    /\ LiveIdle
    /\ RetryIdle

\* token.scopes()
Scopes ==
    /\ tokenResult' = [op |-> "scopes", res |-> scopes(token)]
    /\ UNCHANGED <<token, now, liveVars, retryVars>>

\* token.has_scope(scope)
HasScope ==
    /\ \E scope \in ScopeQueries :
          tokenResult' = [op |-> "has_scope", scope |-> scope,
                          res |-> has_scope(token, scope)]
    /\ UNCHANGED <<token, now, liveVars, retryVars>>

\* token.is_expired(), which reads the clock
IsExpired ==
    /\ tokenResult' = [op |-> "is_expired", now |-> now, res |-> is_expired(token, now)]
    /\ UNCHANGED <<token, now, liveVars, retryVars>>

\* Time passes.
Tick ==
    /\ now < MaxTime
    /\ now' = now + 1
    /\ UNCHANGED <<token, tokenResult, liveVars, retryVars>>

TokenNext ==
    \/ Scopes
    \/ HasScope
    \/ IsExpired
    \/ Tick

TokenSpec == TokenInit /\ [][TokenNext]_vars

----------------------------------------------------------------------------
\* send_with_retry (http.rs)

MAX_RETRIES == 3
TOO_MANY_REQUESTS == 429

\* KickApiError::HttpRequestError, made from a reqwest::Error by `?`.
HttpRequestError == [kind |-> "Err", error |-> "HttpRequestError"]
OkResponse(response) == [kind |-> "OkResponse", v |-> response]

\* What client.execute answers: a response, which carries a status and
\* possibly a retry-after header, or a transport error.
TransportError == [kind |-> "error"]
Response(status, retry_after) ==
    [kind |-> "response", status |-> status, retry_after |-> retry_after]
\* A header value is bytes; to_str reads it as text only when every byte is
\* visible ASCII.
Visible(text) == [visible |-> TRUE, text |-> text]
Opaque == [visible |-> FALSE]

\* str::parse::<u64>: an optional "+" and then one or more decimal digits;
\* a value above u64::MAX is an error.  The value is kept as its numeral.
parse_u64(text) ==
    LET body == IF text # <<>> /\ Head(text) = "+" THEN Tail(text) ELSE text
    IN IF IsNumeral(body) /\ numeral_leq(strip_zeros(body), U64_MAX)
       THEN Some(strip_zeros(body))
       ELSE None

\* The seconds to sleep before a retry.
retry_after(response) ==
    LET header == response.retry_after
        text == IF header.some /\ header.v.visible THEN Some(header.v.text) ELSE None
        secs == IF text.some THEN parse_u64(text.v) ELSE None
    IN IF secs.some THEN secs.v ELSE <<"1">>

\* `next`: the copy kept for the retry.
try_clone_for(n, clonable) == IF n < MAX_RETRIES /\ clonable THEN Some("copy") ELSE None

should_retry_every_429(status, n) == status = TOO_MANY_REQUESTS
should_retry_any_error_status(status, n) == status >= 400 /\ n < MAX_RETRIES
\* The condition of the `if` on a response.
should_retry(status, n) == status = TOO_MANY_REQUESTS /\ n < MAX_RETRIES

\* Where the `for` goes after a pass that did not return: to the execute
\* of the next pass, or past the loop.
for_next(n) == IF n + 1 <= MAX_RETRIES THEN "execute" ELSE "unreachable"

\* The pass with loop variable n when client.execute has answered: where
\* the function is afterwards and what it returned.
on_answer(n, answer) ==
    IF answer.kind = "error" THEN [rpc |-> "done", res |-> HttpRequestError]
    ELSE IF should_retry(answer.status, n) THEN [rpc |-> "sleep", res |-> Pending]
    ELSE [rpc |-> "done", res |-> OkResponse(answer)]

\* The same pass when its sleep is over: the copy becomes the request of
\* the next pass, or there is none.
after_sleep(n, clonable) ==
    LET next == try_clone_for(n, clonable)
    IN IF next.some THEN [rpc |-> for_next(n), res |-> Pending]
       ELSE [rpc |-> "done", res |-> UnexpectedError]

Statuses == {200, TOO_MANY_REQUESTS, 500}
RetryAfterHeaders ==
    {None, Some(Opaque)} \cup
    { Some(Visible(t)) : t \in { <<"0">>, <<"1", "2">>, <<"+", "2">>, <<"-", "1">>, <<>>, <<"s", "2">>,
                                 <<"0", "7">>, U64_MAX, TwoTo64 } }
Answers ==
    {TransportError} \cup { Response(s, h) : s \in Statuses, h \in RetryAfterHeaders }

RetryInit ==
    /\ request \in [builds : BOOLEAN, clonable : BOOLEAN]
    /\ rpc = "start"
    /\ attempt = 0
    /\ executed = <<>>
    /\ slept = <<>>
    /\ retryResult = Pending
    /\ LiveIdle
    /\ TokenIdle

\* request.build()?, and the first client.execute is started.
Build ==
    /\ rpc = "start"
    /\ rpc' = IF request.builds THEN "execute" ELSE "done"
    /\ retryResult' = IF request.builds THEN Pending ELSE HttpRequestError
    /\ UNCHANGED <<request, attempt, executed, slept, liveVars, tokenVars>>

\* The function is suspended in client.execute and the server or the
\* transport answers.
Execute ==
    /\ rpc = "execute"
    /\ \E answer \in Answers :
          LET pass == on_answer(attempt, answer)
          IN /\ executed' = Append(executed, answer)
             /\ rpc' = pass.rpc
             /\ retryResult' = pass.res
    /\ UNCHANGED <<request, attempt, slept, liveVars, tokenVars>>

\* The function is suspended in tokio::time::sleep and the time is over.
Sleep ==
    /\ rpc = "sleep"
    /\ LET pass == after_sleep(attempt, request.clonable)
       IN /\ slept' = Append(slept, retry_after(executed[Len(executed)]))
          /\ rpc' = pass.rpc
          /\ retryResult' = pass.res
          /\ attempt' = IF pass.res = Pending THEN attempt + 1 ELSE attempt
    /\ UNCHANGED <<request, executed, liveVars, tokenVars>>

\* The caller drops the future while it is suspended, in client.execute or
\* in the sleep: the function never returns.
DropRetry ==
    /\ rpc \in {"execute", "sleep"}
    /\ rpc' = "dropped"
    /\ UNCHANGED <<request, attempt, executed, slept, retryResult, liveVars, tokenVars>>

RetryNext ==
    \/ Build
    \/ Execute
    \/ Sleep
    \/ DropRetry

RetrySpec == RetryInit /\ [][RetryNext]_vars

----------------------------------------------------------------------------
(* Vocabulary of the properties *)

ConnectOk == connectResult.res = OkUnit

\* The frame is a text that decodes to an envelope with this event name.
DecodesTo(item, name) ==
    /\ item.type = "Text"
    /\ PusherMessage(item.text).ok
    /\ PusherMessage(item.text).event = name

\* The items read after connect returned the session.
PostHandshake == SubSeq(received, connectResult.at + 1, Len(received))
InSession(i) == ConnectOk /\ i \in (connectResult.at + 1)..Len(received)

\* The sends made while item i was handled.
SentAt(i) == SelectSeq(sent, LAMBDA e : e.at = i /\ e.by = "receive")
AllSendsOk == \A k \in 1..Len(sent) : sent[k].ok
\* The calls that read the stream, and the positions of connect and of
\* such a call in flight.
ReceiveOps == {"next_event", "next_message"}
Reading == ReceiveOps \cup {"wait_established", "wait_subscribed"}
\* The pass on item i is suspended in its ws.send.
SendPendingAt(i) == inSend /\ i = Len(received) /\ pc \in Reading
\* The call that read item i was dropped while it was suspended in the
\* ws.send of that pass,
DroppedInSendAt(i) ==
    \E d \in 1..Len(dropped) :
        /\ dropped[d].op \in ReceiveOps \cup {"connect"}
        /\ dropped[d].at = i /\ dropped[d].in = "send"
\* and the sink had taken the message of that send.
TakenAt(i) ==
    \E d \in 1..Len(dropped) :
        /\ dropped[d].op \in ReceiveOps \cup {"connect"}
        /\ dropped[d].at = i /\ dropped[d].in = "send" /\ dropped[d].taken
\* Every call made on the session, the one in flight included, is `op`.
OnlyCalls(op) ==
    /\ pc \in {"ready", op}
    /\ \A k \in 1..Len(results) : results[k].op = op
    /\ \A k \in 1..Len(dropped) : dropped[k].op = op

\* The values the calls returned, in order.
Returned == [k \in 1..Len(results) |-> results[k].res]

\* A transport-level ping or a decoded "pusher:ping".
IsPing(item) == item.type = "Ping" \/ DecodesTo(item, S_pusher_ping)
WithoutPings(seq) == SelectSeq(seq, LAMBDA item : ~IsPing(item))

\* What successive next_event calls return when they read `seq` and every
\* send succeeds.
RECURSIVE PumpReturns(_)
PumpReturns(seq) ==
    IF seq = <<>> THEN <<>>
    ELSE LET r == next_event(Head(seq), TRUE)
         IN (IF r.ret = "return" THEN <<r.res>> ELSE <<>>) \o PumpReturns(Tail(seq))

----------------------------------------------------------------------------
(* Properties *)

\* C1: connect returns a session only after a frame decoding to
\* pusher:connection_established and, later, a frame decoding to
\* pusher_internal:subscription_succeeded have been read, whatever else is
\* interleaved; no call on the session exists or returns before that.
C1_HandshakeOrdering ==
    /\ pc \in {"ready", "next_event", "next_message", "send_ping", "close"} => ConnectOk
    /\ ConnectOk =>
         \E i, j \in 1..connectResult.at :
            /\ i < j
            /\ DecodesTo(received[i], S_connection_established)
            /\ DecodesTo(received[j], S_subscription_succeeded)
    /\ \A k \in 1..Len(results) :
         ConnectOk /\ results[k].from >= connectResult.at

\* connect has returned a session after a handshake with a ping before the
\* subscription acknowledgement.
C1_Witness ==
    /\ ConnectOk
    /\ pc = "ready"
    /\ \E k \in 1..connectResult.at : IsPing(received[k])

\* C2: when every send succeeds, the values returned by successive
\* next_event calls are those next_event returns on the same items with the
\* transport-level pings and the pusher:ping envelopes removed.
C2_PingTransparency ==
    (ConnectOk /\ OnlyCalls("next_event") /\ AllSendsOk) =>
        Returned = PumpReturns(WithoutPings(PostHandshake))

\* A next_event call has returned an event after reading a ping of each kind.
C2_Witness ==
    /\ AllSendsOk
    /\ \E k \in 1..Len(results) :
        /\ results[k].op = "next_event"
        /\ results[k].res.kind = "OkSome"
        /\ \E i, j \in (results[k].from + 1)..results[k].to :
              received[i].type = "Ping" /\ DecodesTo(received[j], S_pusher_ping)

\* C3, as claimed: in a session every transport-level Ping(payload) is
\* answered, before the next item is read, by exactly one pong handed to
\* the transport, Pong(payload); every decoded pusher:ping by exactly one,
\* the text {"event":"pusher:pong","data":{}}; no other item causes a send.
\* A pong is handed over by a send that completes or by one the sink had
\* taken the message of when the call was dropped; until then the pass on
\* the ping is suspended in that send.
C3_OnePongPerPing ==
    \A i \in 1..Len(received) :
        InSession(i) =>
            LET item == received[i]
                out == SentAt(i)
                handed == Len(out) + (IF TakenAt(i) THEN 1 ELSE 0)
            IN IF item.type = "Ping"
               THEN /\ IF SendPendingAt(i) THEN handed = 0 ELSE handed = 1
                    /\ \A e \in 1..Len(out) :
                          out[e].msg = [type |-> "Pong", payload |-> item.payload]
               ELSE IF DecodesTo(item, S_pusher_ping)
               THEN /\ IF SendPendingAt(i) THEN handed = 0 ELSE handed = 1
                    /\ \A e \in 1..Len(out) :
                          out[e].msg = [type |-> "Text",
                                        text |-> Doc(JObj([event |-> JStr(S_pusher_pong),
                                                           data |-> JObj(NoFields)]))]
               ELSE handed = 0

\* The frame decodes to an envelope whose event name has a reserved prefix.
HasReservedName(item) ==
    /\ item.type = "Text"
    /\ PusherMessage(item.text).ok
    /\ \/ starts_with(PusherMessage(item.text).event, S_pusher_prefix)
       \/ starts_with(PusherMessage(item.text).event, S_pusher_internal_prefix)

\* The frame decodes to an envelope that next_event hands to its caller.
IsSurfaced(item) ==
    /\ item.type = "Text"
    /\ PusherMessage(item.text).ok
    /\ ~HasReservedName(item)

\* The frame decodes to a chat-message event whose data is a chat message.
IsChatMessage(item) ==
    /\ DecodesTo(item, S_ChatMessageEvent)
    /\ LiveChatMessage(PusherMessage(item.text).data).ok
ChatMessageOf(item) == LiveChatMessage(PusherMessage(item.text).data)

\* No call returned while item i was handled.
NoReturnAt(i) == \A k \in 1..Len(results) : results[k].to # i

\* No reserved event is returned by next_event.
NoReservedEventReturned ==
    \A k \in 1..Len(results) :
        (results[k].op = "next_event" /\ results[k].res.kind = "OkSome") =>
            /\ ~starts_with(results[k].res.v.event, S_pusher_prefix)
            /\ ~starts_with(results[k].res.v.event, S_pusher_internal_prefix)

\* C4, as claimed: next_event never returns an event with a reserved name,
\* and after every envelope with a reserved name the loop goes on to the
\* next frame, so that no call returns on it.
C4_Original ==
    /\ NoReservedEventReturned
    /\ \A i \in 1..Len(received) :
         (InSession(i) /\ HasReservedName(received[i])) => NoReturnAt(i)

\* C4, amended: next_event never returns an event with a reserved name; no
\* call returns on an envelope with a reserved name, except with the
\* transport error when the envelope is a pusher:ping and the send of its
\* pusher:pong failed.
C4_ReservedFiltered ==
    /\ NoReservedEventReturned
    /\ \A i \in 1..Len(received) :
         (InSession(i) /\ HasReservedName(received[i])) =>
            \A k \in 1..Len(results) :
                results[k].to = i =>
                    /\ DecodesTo(received[i], S_pusher_ping)
                    /\ results[k].res = WebSocketError
                    /\ \E e \in 1..Len(SentAt(i)) : ~SentAt(i)[e].ok

\* A next_event call has read a pusher: envelope and returned the event
\* that came after it, and a pusher_internal: envelope has been passed over.
C4_Witness ==
    /\ \E k \in 1..Len(results) :
        /\ results[k].op = "next_event"
        /\ results[k].res.kind = "OkSome"
        /\ \E i \in (results[k].from + 1)..results[k].to :
              /\ HasReservedName(received[i])
              /\ starts_with(PusherMessage(received[i].text).event, S_pusher_prefix)
    /\ \E j \in 1..Len(received) :
        /\ InSession(j) /\ j < Len(received)
        /\ HasReservedName(received[j])
        /\ starts_with(PusherMessage(received[j].text).event, S_pusher_internal_prefix)
        /\ NoReturnAt(j)

\* C5: next_message returns Some(message) only on a frame that decodes to
\* an App\Events\ChatMessageEvent whose data decodes as a chat message, and
\* the message is that decoding; on any other event that next_event
\* surfaces no next_message call returns: it is skipped, without error.
C5_ChatFiltering ==
    \A k \in 1..Len(results) :
        results[k].op = "next_message" =>
            /\ results[k].res.kind = "OkSome" =>
                  /\ IsChatMessage(received[results[k].to])
                  /\ results[k].res.v = ChatMessageOf(received[results[k].to])
            /\ \A i \in (results[k].from + 1)..results[k].to :
                  (IsSurfaced(received[i]) /\ ~IsChatMessage(received[i])) =>
                        i < results[k].to

\* A next_message call has skipped an event of another name and a chat
\* event with undecodable data, and returned the chat message after them.
C5_Witness ==
    \E k \in 1..Len(results) :
        /\ results[k].op = "next_message"
        /\ results[k].res.kind = "OkSome"
        /\ \E i, j \in (results[k].from + 1)..results[k].to :
              /\ IsSurfaced(received[i])
              /\ ~DecodesTo(received[i], S_ChatMessageEvent)
              /\ DecodesTo(received[j], S_ChatMessageEvent)
              /\ ~IsChatMessage(received[j])

\* A next_message call has passed over a chat-message event whose sender id
\* is 2^64 and one whose badge count is 2^32, or has returned a message
\* whose sender id is u64::MAX.
C5_WitnessOutOfRange ==
    \E k \in 1..Len(results) :
        /\ results[k].op = "next_message"
        /\ results[k].res.kind = "OkSome"
        /\ \/ \E i \in (results[k].from + 1)..(results[k].to - 1) :
                 received[i] \in {F_chat_id_overflow, F_chat_badge_overflow}
           \/ results[k].res.v.sender.id = U64_MAX

\* C6, as claimed: once a Close frame has been read or the stream has
\* ended, every later call on the session returns None.
C6_ClosedIsTerminal ==
    \A k \in 1..Len(results) :
        (/\ results[k].op \in {"next_event", "next_message"}
         /\ \E i \in 1..results[k].from :
               InSession(i) /\ received[i].type \in {"Close", "End"})
        => results[k].res = OkNone

\* The peer plays the round trip of the specification, the caller only
\* calls next_message and drops no call, and every send succeeds.
RoundTrip ==
    /\ peer.scripted
    /\ (received \o peer.rest) \in RoundTrips
    /\ OnlyCalls("next_message")
    /\ dropped = <<>>
    /\ AllSendsOk

IsPong(m) ==
    \/ m.type = "Pong"
    \/ m.type = "Text" /\ m.text.valid /\ m.text.json.f["event"] = JStr(S_pusher_pong)

\* C7: on [connection_established, subscription_succeeded, ping, chat
\* message "hi", pusher_internal:member_added, Close], connect returns the
\* session after the two handshake frames with nothing returned to the
\* caller; the first next_message sends one pong and nothing else and
\* returns the message with content "hi"; the second returns None.
C7_RoundTrip ==
    RoundTrip =>
        /\ Len(received) >= 2 => ConnectOk /\ connectResult.at = 2
        /\ Len(received) < 4 => results = <<>>
        /\ Len(received) >= 4 =>
              /\ Len(results) >= 1
              /\ results[1].from = 2 /\ results[1].to = 4
              /\ results[1].res.kind = "OkSome"
              /\ results[1].res.v.content = S_hi
              /\ Len(sent) = 2
              /\ sent[2].at = 3 /\ IsPong(sent[2].msg)
        /\ Len(received) \in {4, 5} => Len(results) = 1
        /\ Len(received) = 6 =>
              /\ pc \in {"ready", "next_message"}
              /\ pc = "next_message" => callFrom = 6
              /\ Len(results) = 2
              /\ results[2].from = 4
              /\ results[2].res = OkNone

\* The round trip has been played to its end.
C7_Witness ==
    /\ RoundTrip
    /\ Len(received) = 6
    /\ Len(results) = 2

\* The chat messages in `seq`, decoded, in order.
ValidChats(seq) ==
    LET chats == SelectSeq(seq, IsChatMessage)
    IN [k \in 1..Len(chats) |-> ChatMessageOf(chats[k])]

\* The values of the Some results, in order.
SomeReturned ==
    LET some == SelectSeq(Returned, LAMBDA r : r.kind = "OkSome")
    IN [k \in 1..Len(some) |-> some[k].v]

\* A chat-message event whose data is not JSON.
IsChatNotJson(item) ==
    /\ DecodesTo(item, S_ChatMessageEvent)
    /\ ~PusherMessage(item.text).data.valid

\* C8: when the caller only calls next_message, no call returns on a chat
\* event whose data is not JSON, and the k-th Some result is the k-th valid
\* chat message received, in arrival order.
C8_MalformedPayloadSkipped ==
    (ConnectOk /\ OnlyCalls("next_message")) =>
        /\ SomeReturned = ValidChats(PostHandshake)
        /\ \A i \in 1..Len(received) :
              (InSession(i) /\ IsChatNotJson(received[i])) => NoReturnAt(i)

\* Two next_message calls have returned two different messages, the first
\* after skipping a chat event whose data is not JSON.
C8_Witness ==
    /\ OnlyCalls("next_message")
    /\ Len(results) = 2
    /\ results[1].res.kind = "OkSome" /\ results[2].res.kind = "OkSome"
    /\ results[1].res.v # results[2].res.v
    /\ \E i \in (results[1].from + 1)..results[1].to : IsChatNotJson(received[i])

\* C9: on a Close frame and on the end of the stream the call in flight,
\* next_event or next_message, returns Ok(None).
C9_CloseReturnsNone ==
    \A i \in 1..Len(received) :
        (InSession(i) /\ received[i].type \in {"Close", "End"}) =>
            \E k \in 1..Len(results) : results[k].to = i /\ results[k].res = OkNone

\* next_event has returned None on a Close frame and next_message on the
\* end of the stream.
C9_Witness ==
    \E k, l \in 1..Len(results) :
        /\ results[k].op = "next_event" /\ received[results[k].to].type = "Close"
        /\ results[l].op = "next_message" /\ received[results[l].to].type = "End"
        /\ results[k].res = OkNone /\ results[l].res = OkNone

\* A frame that is neither ping nor close and does not decode to an envelope.
IsUndecodable(item) ==
    \/ item.type \in {"Binary", "Pong"}
    \/ item.type = "Text" /\ ~PusherMessage(item.text).ok

\* The call in flight was dropped after it had read item i.
DroppedAt(i) ==
    \E d \in 1..Len(dropped) :
        dropped[d].op \in ReceiveOps /\ dropped[d].from < i /\ dropped[d].at = i

\* C10: on a frame that does not decode to an envelope no call returns, be
\* it with an error or a value, nothing is sent, and the call stays in
\* flight for the next frame (until its caller drops it).
C10_UndecodableDiscarded ==
    \A i \in 1..Len(received) :
        (InSession(i) /\ IsUndecodable(received[i])) =>
            /\ NoReturnAt(i)
            /\ SentAt(i) = <<>>
            /\ i = Len(received) =>
                  pc \in {"next_event", "next_message"} \/ DroppedAt(i)

\* A next_event call has read a non-text frame and a text that is no
\* envelope, and returned the event after them.
C10_Witness ==
    \E k \in 1..Len(results) :
        /\ results[k].op = "next_event"
        /\ results[k].res.kind = "OkSome"
        /\ \E i, j \in (results[k].from + 1)..results[k].to :
              /\ received[i].type # "Text" /\ IsUndecodable(received[i])
              /\ received[j].type = "Text" /\ IsUndecodable(received[j])

----------------------------------------------------------------------------
(* Errors of the transport *)

\* A send made while item i was handled failed.
SendFailedAt(i) == \E e \in 1..Len(SentAt(i)) : ~SentAt(i)[e].ok

\* C11: when a read of the stream fails, or the send of a transport pong
\* or of a pusher:pong fails, the call that met the failure, next_event or
\* next_message, returns the transport error on that very item, and
\* returns nothing else on it.
C11_TransportErrorReturned ==
    \A i \in 1..Len(received) :
        (InSession(i) /\ (received[i].type = "Err" \/ SendFailedAt(i))) =>
            /\ \E k \in 1..Len(results) :
                  /\ results[k].op \in {"next_event", "next_message"}
                  /\ results[k].to = i
            /\ \A k \in 1..Len(results) :
                  results[k].to = i => results[k].res = WebSocketError

\* The send of a transport pong, the send of a pusher:pong and a read
\* have failed in one session, and next_message met one of the three.
C11_Witness ==
    \E i, j, l \in 1..Len(received) :
        /\ InSession(i) /\ InSession(j) /\ InSession(l)
        /\ received[i].type = "Ping" /\ SendFailedAt(i)
        /\ DecodesTo(received[j], S_pusher_ping) /\ SendFailedAt(j)
        /\ received[l].type = "Err"
        /\ \E k \in 1..Len(results) :
              /\ results[k].op = "next_message"
              /\ results[k].to \in {i, j, l}
              /\ results[k].res = WebSocketError

----------------------------------------------------------------------------
(* Failures of connect *)

\* Item i was read by connect.
InHandshake(i) ==
    /\ i \in 1..Len(received)
    /\ ConnectOk => i <= connectResult.at

\* A session has been returned to the caller.
SessionExists == pc \in {"ready", "next_event", "next_message", "send_ping", "close"}

\* C12: when the transport does not open, when a read of the handshake
\* fails or finds the stream ended, and when a send of the handshake, the
\* subscribe command included, fails, connect returns an error at that very
\* point and no session exists: no call is ever made, and the stream, if
\* it was opened, is dropped with the return.  A session exists only when
\* connect has returned Ok, after both awaited events were read and the
\* subscribe command was sent, and it holds the stream.
C12_ConnectFailures ==
    /\ (pc \notin {"start", "connecting", "abandoned"} /\ ws = "unopened") =>
          /\ pc = "failed"
          /\ connectResult = [res |-> WebSocketError, at |-> 0]
    /\ \A i \in 1..Len(received) :
          (InHandshake(i) /\ (received[i].type \in {"Err", "End"} \/ SendFailedAt(i))) =>
              /\ pc = "failed"
              /\ connectResult.at = i
              /\ connectResult.res.kind = "Err"
    /\ pc = "failed" =>
          /\ connectResult.res.kind = "Err"
          /\ results = <<>> /\ dropped = <<>>
          /\ ws = IF connectResult.at = 0 THEN "unopened" ELSE "dropped"
    /\ SessionExists <=> ConnectOk
    /\ SessionExists => ws \notin {"unopened", "dropped"}
    /\ ConnectOk =>
          \E i, j \in 1..connectResult.at :
              /\ i < j /\ j = connectResult.at
              /\ DecodesTo(received[i], S_connection_established)
              /\ DecodesTo(received[j], S_subscription_succeeded)
              /\ \E e \in 1..Len(SentAt(i)) :
                    /\ SentAt(i)[e].msg = Text(to_string(subscribe(channel_name(chatroom_id))))
                    /\ SentAt(i)[e].ok

\* connect has failed because the stream ended after the
\* connection-established event, while it waited for the subscription.
C12_Witness ==
    /\ pc = "failed"
    /\ ws = "dropped"
    /\ Len(received) >= 2
    /\ received[Len(received)].type = "End"
    /\ \E i \in 1..Len(received) : DecodesTo(received[i], S_connection_established)
    /\ \E e \in 1..Len(sent) : sent[e].ok /\ sent[e].msg.type = "Text"
    /\ connectResult.res = UnexpectedError

----------------------------------------------------------------------------
(* The subscribe command *)

\* The channel of each room, written out.
S_channel_7 ==
    <<"c","h","a","t","r","o","o","m","s",".","7",".","v","2">>
S_channel_27670567 ==
    <<"c","h","a","t","r","o","o","m","s",".","2","7","6","7","0","5","6","7",".","v","2">>
ExpectedChannel == IF chatroom_id = 7 THEN S_channel_7 ELSE S_channel_27670567

IsSubscribe(m) ==
    /\ m.type = "Text" /\ m.text.valid
    /\ m.text.json.t = "object"
    /\ "event" \in DOMAIN m.text.json.f
    /\ m.text.json.f["event"] = JStr(S_pusher_subscribe)
SubscribeSends == SelectSeq(sent, LAMBDA e : IsSubscribe(e.msg))

\* C13: connect sends the subscribe command once, when its first wait has
\* read the first connection-established event and not before; the wait for
\* subscription-succeeded reads only frames that come after that send; the
\* command is {event: "pusher:subscribe", data: {auth: "", channel:
\* "chatrooms.<room id>.v2"}} with the room id given to connect.
C13_SubscribeCommand ==
    /\ Len(SubscribeSends) <= 1
    /\ pc \in {"start", "wait_established"} => SubscribeSends = <<>>
    /\ (pc = "wait_subscribed" \/ SessionExists) => Len(SubscribeSends) = 1
    /\ \A e \in 1..Len(SubscribeSends) :
          LET cmd == SubscribeSends[e] IN
          /\ cmd.at \in 1..Len(received)
          /\ DecodesTo(received[cmd.at], S_connection_established)
          /\ \A j \in 1..(cmd.at - 1) :
                ~DecodesTo(received[j], S_connection_established)
          /\ ConnectOk => connectResult.at > cmd.at
          /\ cmd.msg =
                Text(Doc(JObj([event |-> JStr(S_pusher_subscribe),
                               data |-> JObj([auth |-> JStr(<<>>),
                                              channel |-> JStr(ExpectedChannel)])])))

\* The subscribe command of room 27670567 has been sent after a ping and a
\* subscription-succeeded that came too early, and connect waits for the
\* subscription.
C13_Witness ==
    /\ pc = "wait_subscribed"
    /\ chatroom_id = 27670567
    /\ Len(SubscribeSends) = 1
    /\ SubscribeSends[1].at = 3
    /\ received[1].type = "Ping"
    /\ DecodesTo(received[2], S_subscription_succeeded)

----------------------------------------------------------------------------
(* The states of a session *)

\* C14, as claimed: Closed is terminal.  Once a call on the session has
\* returned a transport error, no later call returns an event or a message.
C14_ClosedIsTerminal ==
    \A j, k \in 1..Len(results) :
        (j < k /\ results[j].res = WebSocketError) =>
            results[k].res.kind # "OkSome"

\* C15, as claimed: dropping a call of next_event or next_message that is
\* in flight closes the transport: after a drop the stream of the session
\* is no longer open.
C15_DropClosesTransport ==
    (\E d \in 1..Len(dropped) : dropped[d].op \in ReceiveOps) => ws # "open"

----------------------------------------------------------------------------
(* One call at a time *)

\* The calls.
CallOps == {"next_event", "next_message", "send_ping", "close"}

\* At most one call is in flight, and only on a session.
OneCallAtMost ==
    /\ Len(calls) <= 1
    /\ calls # <<>> => (phase = "ready" /\ calls[1].op \in CallOps)

\* A step taken while a call is in flight is a step of that call: what is
\* read, sent, returned or dropped in the step is read, sent, returned or
\* dropped by it, and it stays in flight until it returns or is dropped.
\* A call is made only when none is in flight.
StepOfCallInFlight ==
    /\ calls # <<>> =>
        LET call == calls[1] IN
        /\ \/ calls' = <<>>
           \/ /\ Len(calls') = 1
              /\ calls'[1].op = call.op /\ calls'[1].from = call.from
        /\ Len(results') \in {Len(results), Len(results) + 1}
        /\ Len(results') > Len(results) =>
              /\ results'[Len(results')].op = call.op
              /\ results'[Len(results')].from = call.from
              /\ calls' = <<>>
        /\ \A e \in (Len(sent) + 1)..Len(sent') :
              /\ sent'[e].by = (IF call.op \in ReceiveOps THEN "receive" ELSE call.op)
              /\ call.inSend
        /\ Len(received') > Len(received) => (call.op \in ReceiveOps /\ ~call.inSend)
        /\ Len(dropped') \in {Len(dropped), Len(dropped) + 1}
        /\ Len(dropped') > Len(dropped) =>
              /\ dropped'[Len(dropped')].op = call.op
              /\ dropped'[Len(dropped')].from = call.from
              /\ calls' = <<>>
    /\ Len(calls') > Len(calls) => calls = <<>>

\* C16: at most one call of next_event, next_message, send_ping or close
\* is in flight on the session at any time.  While one is in flight every
\* step on the session is a step of that call: it alone reads the stream,
\* sends and returns, until it returns or is dropped, and no other call
\* starts in between.
C16_OneCallInFlight == []OneCallAtMost /\ [][StepOfCallInFlight]_vars

\* A next_message call is in flight: it has read a ping and is suspended in
\* the send of the pong, after a send_ping call has returned.
C16_Witness ==
    /\ pc = "next_message"
    /\ Len(received) = callFrom + 1
    /\ IsPing(received[Len(received)])
    /\ inSend
    /\ \E k \in 1..Len(results) : results[k].op = "send_ping"

----------------------------------------------------------------------------
(* No retry *)

\* The subscribe command is sent at most once, by connect.  After a read
\* of connect failed or found the stream ended, connect has failed, its
\* stream is dropped and nothing is read or sent any more; after such a
\* read of a call on the session, the stream stays ended and yields nothing
\* but its end.
NeverResumed ==
    /\ Len(SubscribeSends) <= 1
    /\ \A e \in 1..Len(SubscribeSends) : InHandshake(SubscribeSends[e].at)
    /\ \A i \in 1..Len(received) :
          received[i].type \in {"Err", "End"} =>
              IF InHandshake(i)
              THEN /\ pc = "failed"
                   /\ ws = "dropped"
                   /\ i = Len(received)
                   /\ \A e \in 1..Len(sent) : sent[e].at < i
              ELSE /\ ws = "ended"
                   /\ \A j \in (i + 1)..Len(received) : received[j].type = "End"
                   /\ \A e \in 1..Len(sent) : ~IsSubscribe(sent[e].msg) \/ sent[e].at < i

\* The stream is opened by the first step of connect and by no other, and
\* connect is never started again.
OpenedOnce ==
    /\ (ws' = "open" /\ ws # "open") => (ws = "unopened" /\ pc = "connecting")
    /\ pc # "start" => pc' # "start"
    /\ pc = "failed" => pc' = "failed"
    /\ pc = "abandoned" => pc' = "abandoned"

\* C17: nothing is retried.  connect opens the transport at most once and
\* sends the subscribe command at most once; once connect has failed it
\* stays failed; after a transport error or the end of the stream no call
\* opens the transport again or sends a subscribe command.
C17_NoRetry == []NeverResumed /\ [][OpenedOnce]_vars

\* On a session a call has returned a transport error and a later call
\* has returned None at the end of the stream; one subscribe command was
\* sent in all.
C17_Witness ==
    /\ Len(SubscribeSends) = 1
    /\ \E j, k \in 1..Len(results) :
          /\ j < k
          /\ results[j].res = WebSocketError
          /\ results[k].res = OkNone
          /\ received[results[k].to].type = "End"

----------------------------------------------------------------------------
(* Pings during the handshake *)

\* connect returned while it handled item i.
ConnectReturnedAt(i) == connectResult.res # Pending /\ connectResult.at = i

\* The wait of connect that read item i went on to the next frame (or
\* connect was dropped in that wait).
WaitContinuedAt(i) ==
    /\ ~ConnectReturnedAt(i)
    /\ i = Len(received) => pc \in {"wait_established", "wait_subscribed", "abandoned"}

\* One pong carrying the payload of ping i was handed to the transport,
\* and nothing else.
PongSentFor(i) ==
    /\ Len(SentAt(i)) = 1
    /\ SentAt(i)[1].msg = Pong(received[i].payload)

\* The pass of connect on item i is over: it is not suspended in its send
\* and connect was not dropped there.
HandshakePassDone(i) == ~SendPendingAt(i) /\ ~DroppedInSendAt(i)

\* C18, as claimed: in both waits of connect every ping frame is answered
\* with a pong of the same payload and discarded, and the wait continues.
C18_Original ==
    \A i \in 1..Len(received) :
        (InHandshake(i) /\ received[i].type = "Ping" /\ HandshakePassDone(i)) =>
            /\ PongSentFor(i)
            /\ SentAt(i)[1].ok
            /\ WaitContinuedAt(i)

\* C18, amended: in both waits of connect every ping frame is answered
\* with one pong of the same payload; when the send of the pong succeeds
\* the ping is discarded and the wait continues, and when it fails connect
\* returns the transport error on that frame.
C18_HandshakePings ==
    \A i \in 1..Len(received) :
        (InHandshake(i) /\ received[i].type = "Ping" /\ HandshakePassDone(i)) =>
            /\ PongSentFor(i)
            /\ SentAt(i)[1].ok => WaitContinuedAt(i)
            /\ ~SentAt(i)[1].ok =>
                  /\ pc = "failed"
                  /\ connectResult = [res |-> WebSocketError, at |-> i]

\* connect has returned the session after a ping in its first wait and a
\* ping in its second wait, both answered.
C18_Witness ==
    /\ ConnectOk
    /\ Len(SubscribeSends) = 1
    /\ \E i, j \in 1..connectResult.at :
          /\ i < SubscribeSends[1].at /\ SubscribeSends[1].at < j
          /\ received[i].type = "Ping" /\ received[j].type = "Ping"
          /\ PongSentFor(i) /\ PongSentFor(j)

----------------------------------------------------------------------------
(* The event handed to the caller *)

\* The member of the envelope of a text frame as it is written in the
\* frame, by name in an object and by position in an array; null when
\* it is not written.
EnvelopeField(item, name, pos) ==
    LET json == item.text.json IN
    IF json.t = "object"
    THEN IF name \in DOMAIN json.f THEN json.f[name] ELSE JNull
    ELSE IF pos <= Len(json.a) THEN json.a[pos] ELSE JNull

\* The event that carries the envelope of the frame unchanged.
EventOf(item) ==
    [event |-> EnvelopeField(item, "event", 1).s,
     channel |-> IF EnvelopeField(item, "channel", 3).t = "null" THEN None
                 ELSE Some(EnvelopeField(item, "channel", 3).s),
     data |-> EnvelopeField(item, "data", 2).s]

\* C19: an event returned by next_event comes from an envelope that is
\* neither pusher:ping nor of a reserved name, and its event name, its
\* channel (none when the envelope has none) and its data are those
\* written in the envelope; the data is the string as it came, JSON or
\* not.  When only next_event is called, every such envelope is returned.
C19_EventFromEnvelope ==
    /\ \A k \in 1..Len(results) :
          (results[k].op = "next_event" /\ results[k].res.kind = "OkSome") =>
              /\ IsSurfaced(received[results[k].to])
              /\ results[k].res.v = EventOf(received[results[k].to])
    /\ OnlyCalls("next_event") =>
          \A i \in 1..Len(received) :
              (InSession(i) /\ IsSurfaced(received[i])) =>
                  \E k \in 1..Len(results) :
                      results[k].to = i /\ results[k].res.kind = "OkSome"

\* next_event has returned a chat event with its channel and a data
\* string that is not JSON, and an event without channel.
C19_Witness ==
    \E k, l \in 1..Len(results) :
        /\ results[k].op = "next_event" /\ results[l].op = "next_event"
        /\ results[k].res = OkSome([event |-> S_ChatMessageEvent,
                                     channel |-> Some(S_channel_27670567),
                                     data |-> NotJson])
        /\ results[l].res = OkSome([event |-> S_UserBannedEvent,
                                     channel |-> None,
                                     data |-> EmptyObjectText])

----------------------------------------------------------------------------
(* send_ping *)

PingCalls == SelectSeq(results, LAMBDA r : r.op = "send_ping")
PingSends == SelectSeq(sent, LAMBDA e : e.by = "send_ping")

\* C20: every call of send_ping that runs to its end hands one message to the transport, the
\* text {"event": "pusher:ping", "data": {}}, reads nothing, and returns Ok
\* when that send succeeded and the transport error when it failed.
C20_SendPing ==
    /\ Len(PingSends) = Len(PingCalls)
    /\ \A n \in 1..Len(PingCalls) :
          /\ PingSends[n].msg =
                Text(Doc(JObj([event |-> JStr(<<"p","u","s","h","e","r",":","p","i","n","g">>),
                               data |-> JObj(NoFields)])))
          /\ PingSends[n].at = PingCalls[n].from
          /\ PingCalls[n].to = 0
          /\ PingSends[n].ok => PingCalls[n].res = OkUnit
          /\ ~PingSends[n].ok => PingCalls[n].res = WebSocketError

\* Between two calls of next_event that returned events, a send_ping has
\* sent its frame and returned Ok.
C20_Witness ==
    \E j, k, l \in 1..Len(results) :
        /\ j < k /\ k < l
        /\ results[j].op = "next_event" /\ results[j].res.kind = "OkSome"
        /\ results[k].op = "send_ping" /\ results[k].res = OkUnit
        /\ results[l].op = "next_event" /\ results[l].res.kind = "OkSome"
        /\ Len(PingSends) = 1 /\ PingSends[1].ok

----------------------------------------------------------------------------
(* close *)

CloseCalls == SelectSeq(results, LAMBDA r : r.op = "close")
CloseSends == SelectSeq(sent, LAMBDA e : e.by = "close")

\* C21: every call of close that runs to its end hands one Close frame to the transport and
\* nothing else, reads nothing, and returns Ok when the transport accepted
\* the close and the transport error when it did not; it never returns an
\* event.
C21_Close ==
    /\ Len(CloseSends) = Len(CloseCalls)
    /\ \A n \in 1..Len(CloseCalls) :
          /\ CloseSends[n].msg = [type |-> "Close"]
          /\ CloseSends[n].at = CloseCalls[n].from
          /\ CloseCalls[n].to = 0
          /\ CloseSends[n].ok => CloseCalls[n].res = OkUnit
          /\ ~CloseSends[n].ok => CloseCalls[n].res = WebSocketError

\* After next_event has returned an event, close has sent the Close frame
\* and returned Ok.
C21_Witness ==
    \E j, k \in 1..Len(results) :
        /\ j < k
        /\ results[j].op = "next_event" /\ results[j].res.kind = "OkSome"
        /\ results[k].op = "close" /\ results[k].res = OkUnit
        /\ Len(CloseSends) = 1 /\ CloseSends[1].ok
        /\ ws = "closing"

----------------------------------------------------------------------------
(* The scopes of a token *)

\* The places where a whitespace-free run of s starts, and where the run
\* that starts at i ends.
RunStarts(s) ==
    { i \in 1..Len(s) : ~is_whitespace(s[i]) /\ (i = 1 \/ is_whitespace(s[i - 1])) }
RunEnd(s, i) ==
    CHOOSE j \in i..Len(s) :
        /\ \A k \in i..j : ~is_whitespace(s[k])
        /\ j = Len(s) \/ is_whitespace(s[j + 1])
\* The maximal whitespace-free runs of s, from left to right.
Runs(s) ==
    [k \in 1..Cardinality(RunStarts(s)) |->
        LET i == CHOOSE i \in RunStarts(s) :
                    Cardinality({ j \in RunStarts(s) : j < i }) = k - 1
        IN SubSeq(s, i, RunEnd(s, i))]
TokensOf(self) == IF self.scope.some THEN Runs(self.scope.v) ELSE <<>>

\* C22: scopes returns the maximal whitespace-free runs of the scope
\* string, from left to right, and nothing when there is no scope string;
\* has_scope(s) is true exactly when s is one of them.
C22_Scopes ==
    /\ tokenResult.op = "scopes" => tokenResult.res = TokensOf(token)
    /\ tokenResult.op = "has_scope" =>
          (tokenResult.res <=>
              \E k \in 1..Len(TokensOf(token)) : TokensOf(token)[k] = tokenResult.scope)

\* scopes has returned two scopes for a string with a tab and two spaces
\* in a row.
C22_Witness ==
    /\ tokenResult.op = "scopes"
    /\ token.scope = Some(<<"r", " ", " ", "r">>) \/ token.scope = Some(<<"\t", "r", " ", "r">>)
    /\ tokenResult.res = << <<"r">>, <<"r">> >>

\* scopes has returned two scopes for a string that separates them by a
\* form feed and a no-break space.
C22_WitnessUnicode ==
    /\ tokenResult.op = "scopes"
    /\ token.scope = Some(<<"r", "\f", "U+00A0", "r">>)
    /\ tokenResult.res = << <<"r">>, <<"r">> >>

\* C23: is_expired returns true exactly when the token has an exp and the
\* clock read by the call, in whole seconds since the epoch, is at or after
\* it; without exp it returns false at any time.
C23_IsExpired ==
    tokenResult.op = "is_expired" =>
        /\ tokenResult.res <=> (token.exp # None /\ tokenResult.now >= token.exp.v)
        /\ token.exp = None => tokenResult.res = FALSE

\* is_expired has returned true in the very second of exp.
C23_Witness ==
    /\ tokenResult.op = "is_expired"
    /\ token.exp = Some(1)
    /\ tokenResult.now = 1
    /\ tokenResult.res = TRUE

----------------------------------------------------------------------------
\* send_with_retry

Is429(answer) == answer.kind = "response" /\ answer.status = 429
Returned_retry == rpc = "done"

\* The executions started: those answered and the one in flight.
Executions == Len(executed) + (IF rpc = "execute" THEN 1 ELSE 0)

\* C24: send_with_retry executes the request at most MAX_RETRIES + 1 = 4
\* times; every execution but the last one was answered by a 429, and was
\* followed by a sleep before the next one started; a response with another
\* status ends the call and is its Ok result; a transport error from
\* execute ends the call and is its error.
C24_BoundedRetry ==
    /\ MAX_RETRIES + 1 = 4
    /\ Executions <= 4
    /\ attempt <= MAX_RETRIES
    /\ \A i \in 1..Len(executed) :
          /\ i < Executions => (Is429(executed[i]) /\ Len(slept) >= i)
          /\ (executed[i].kind = "response" /\ ~Is429(executed[i])) =>
                /\ i = Executions
                /\ Returned_retry
                /\ retryResult = OkResponse(executed[i])
          /\ executed[i].kind = "error" =>
                /\ i = Executions
                /\ Returned_retry
                /\ retryResult = HttpRequestError
    /\ Len(slept) <= Len(executed)
    /\ rpc = "execute" => Len(executed) = attempt

\* Three 429s and then a 200, which is returned from the fourth execution.
C24_Witness ==
    /\ Returned_retry
    /\ Len(executed) = 4
    /\ \A i \in 1..3 : Is429(executed[i])
    /\ executed[4].kind = "response" /\ executed[4].status = 200
    /\ retryResult = OkResponse(executed[4])

\* C25: the unreachable!() after the loop is never reached; a 429 on the
\* fourth attempt is returned as Ok; a 429 on an earlier attempt for a
\* request that cannot be cloned is followed by no further execution, and
\* the call, once its sleep is over, returns UnexpectedError.
C25_NoUnreachable ==
    /\ rpc # "unreachable"
    /\ (Len(executed) = 4 /\ Is429(executed[4])) =>
          Returned_retry /\ retryResult = OkResponse(executed[4])
    /\ \A i \in 1..Len(executed) :
          (i < 4 /\ Is429(executed[i]) /\ ~request.clonable) =>
             /\ i = Executions
             /\ rpc \in {"sleep", "dropped", "done"}
             /\ rpc = "done" <=> Len(slept) = i
             /\ Returned_retry => retryResult = UnexpectedError

\* The fourth attempt was answered by a 429 and that response is the result.
C25_Witness ==
    /\ Len(executed) = 4
    /\ Is429(executed[4])
    /\ retryResult = OkResponse(executed[4])
    /\ slept = << <<"1">>, <<"1", "2">>, <<"2">> >>

\* A request that cannot be cloned was answered by a 429.
C25_WitnessNoClone ==
    /\ ~request.clonable
    /\ Len(executed) = 1
    /\ Is429(executed[1])
    /\ retryResult = UnexpectedError

----------------------------------------------------------------------------
(* Envelopes as they are written *)

\* The text has no JSON field `name` that is a string.
LacksStringField(item, name) ==
    \/ ~item.text.valid
    \/ item.text.json.t # "object"
    \/ name \notin DOMAIN item.text.json.f
    \/ item.text.json.f[name].t # "string"

\* The text is a JSON object, or a JSON array read by position, in which
\* event and data are strings.
StringTyped(item) ==
    /\ item.text.valid
    /\ item.text.json.t \in {"object", "array"}
    /\ EnvelopeField(item, "event", 1).t = "string"
    /\ EnvelopeField(item, "data", 2).t = "string"

\* Item i was passed over: nothing was sent for it and no call returned on
\* it.
DiscardedAt(i) ==
    /\ NoReturnAt(i)
    /\ SentAt(i) = <<>>
    /\ i = Len(received) => pc \in {"next_event", "next_message"} \/ DroppedAt(i)

\* C26, as claimed: every text frame without a string field "event" or
\* without a string field "data" is passed over by next_event, with no pong
\* sent and no event returned.
C26_Original ==
    \A i \in 1..Len(received) :
        (/\ InSession(i)
         /\ received[i].type = "Text"
         /\ LacksStringField(received[i], "event") \/ LacksStringField(received[i], "data")) =>
            DiscardedAt(i)

\* C26, amended: every text frame in which event or data, read by name from
\* a JSON object or by position from a JSON array, is not a string is
\* passed over by next_event, with no pong sent and no event returned,
\* whatever its event name.
C26_StringTypedOnly ==
    \A i \in 1..Len(received) :
        (InSession(i) /\ received[i].type = "Text" /\ ~StringTyped(received[i])) =>
            DiscardedAt(i)

\* A pusher:ping whose data is a JSON object has been passed over without a
\* pong, and the call has returned the event that came later.
C26_Witness ==
    \E k \in 1..Len(results) :
        /\ results[k].op = "next_event"
        /\ results[k].res.kind = "OkSome"
        /\ \E i \in (results[k].from + 1)..(results[k].to - 1) :
              /\ received[i] = F_pusher_ping_object
              /\ SentAt(i) = <<>>

----------------------------------------------------------------------------
(* What connect sends *)

\* The sends made by connect: those made while an item of the handshake
\* was handled.
HandshakeSends == SelectSeq(sent, LAMBDA e : e.by = "receive" /\ InHandshake(e.at))
HandshakeTexts == SelectSeq(HandshakeSends, LAMBDA e : e.msg.type = "Text")

\* C27: from its start to its return connect sends at most one text frame,
\* the subscribe command; everything else it sends is a pong frame for a
\* ping frame; on a "pusher:ping" envelope read in either wait nothing is
\* sent and the wait goes on.
C27_HandshakeSends ==
    /\ Len(HandshakeTexts) <= 1
    /\ \A e \in 1..Len(HandshakeSends) :
          LET s == HandshakeSends[e] IN
          \/ IsSubscribe(s.msg) /\ DecodesTo(received[s.at], S_connection_established)
          \/ received[s.at].type = "Ping" /\ s.msg = Pong(received[s.at].payload)
    /\ \A i \in 1..Len(received) :
          (InHandshake(i) /\ DecodesTo(received[i], S_pusher_ping)) =>
              /\ SentAt(i) = <<>>
              /\ WaitContinuedAt(i)

\* connect has returned the session after a "pusher:ping" in its first wait
\* and another in its second, and the subscribe command is all it sent.
C27_Witness ==
    /\ ConnectOk
    /\ Len(HandshakeSends) = 1
    /\ \E i, j, k \in 1..connectResult.at :
          /\ i < j /\ j < k
          /\ received[i] = F_pusher_ping
          /\ DecodesTo(received[j], S_connection_established)
          /\ received[k] = F_pusher_ping

----------------------------------------------------------------------------
(* The order of what next_event returns *)

\* next_event returns on item i: the item is a Close frame, the end of the
\* stream or a failed read, an envelope it hands to its caller, or a ping
\* whose reply could not be sent.
ProducesResult(i) ==
    \/ received[i].type \in {"Close", "End", "Err"}
    \/ IsSurfaced(received[i])
    \/ SendFailedAt(i)

\* No next_message call has read from the stream.
OnlyNextEventReads ==
    /\ pc # "next_message"
    /\ \A k \in 1..Len(results) : results[k].op # "next_message"
    /\ \A d \in 1..Len(dropped) : dropped[d].op # "next_message"

\* C28: a next_event call reads the items that follow those read before it,
\* in order, and returns on the first one that produces a result, having
\* read nothing beyond it; a later call starts after the item an earlier
\* one returned on.  When only next_event reads, every envelope read after
\* the handshake that is to be handed to the caller is returned by exactly
\* one call, as the event it carries.  No call returns on an item read
\* during the handshake.
C28_ArrivalOrder ==
    /\ \A k \in 1..Len(results) :
          results[k].op = "next_event" =>
              /\ connectResult.at <= results[k].from
              /\ results[k].from < results[k].to
              /\ results[k].to <= Len(received)
              /\ ProducesResult(results[k].to)
              /\ \A i \in (results[k].from + 1)..(results[k].to - 1) : ~ProducesResult(i)
              /\ \A j \in 1..(k - 1) : results[j].to <= results[k].from
              /\ k = Len(results) /\ pc = "ready" /\ dropped = <<>> =>
                    results[k].to = Len(received)
    /\ OnlyNextEventReads =>
          \A i \in 1..Len(received) :
              (InSession(i) /\ IsSurfaced(received[i])) =>
                  /\ Cardinality({ k \in 1..Len(results) : results[k].to = i }) = 1
                  /\ \E k \in 1..Len(results) :
                        /\ results[k].to = i
                        /\ results[k].res = OkSome(EventOf(received[i]))
    /\ \A k \in 1..Len(results) :
          results[k].to # 0 => (ConnectOk /\ results[k].to > connectResult.at)

\* The handshake has read two application events; the two calls made since
\* have returned the two events that came after it, in their order.
C28_Witness ==
    /\ ConnectOk
    /\ \E g, h \in 1..connectResult.at :
          g < h /\ IsSurfaced(received[g]) /\ IsSurfaced(received[h])
    /\ Len(results) = 2
    /\ results[1].op = "next_event" /\ results[2].op = "next_event"
    /\ results[1].res = OkSome(EventOf(F_chat_yo))
    /\ results[2].res = OkSome(EventOf(F_banned))
    /\ results[1].to < results[2].to

----------------------------------------------------------------------------
(* How connect leaves its waits *)

\* The event name awaited when item i was read: the subscribe command is
\* sent on the item that ends the first wait.
AwaitedAt(i) ==
    IF SubscribeSends = <<>> \/ i <= SubscribeSends[1].at
    THEN S_connection_established
    ELSE S_subscription_succeeded

\* An item of the handshake that is neither the awaited event, nor the end
\* of the stream, nor a failed read, nor a ping frame.
OtherInHandshake(i) ==
    /\ InHandshake(i)
    /\ received[i].type \notin {"End", "Err", "Ping"}
    /\ ~DecodesTo(received[i], AwaitedAt(i))

\* C30: a wait of connect ends only on the awaited event, on the end of the
\* stream or on a transport error (a failed read, or a failed send of a
\* pong).  On any other frame, a Close frame, an event of another name such
\* as "pusher:error", a text that is no envelope, nothing is sent, connect
\* does not return and the same wait goes on.
C30_HandshakeExits ==
    /\ \A i \in 1..Len(received) :
          OtherInHandshake(i) =>
              /\ SentAt(i) = <<>>
              /\ WaitContinuedAt(i)
    /\ \A i \in 1..Len(received) :
          ConnectReturnedAt(i) =>
              \/ received[i].type \in {"End", "Err"}
              \/ received[i].type = "Ping" /\ SendFailedAt(i)
              \/ DecodesTo(received[i], AwaitedAt(i))
    /\ \A e \in 1..Len(SubscribeSends) :
          DecodesTo(received[SubscribeSends[e].at], S_connection_established)
    /\ pc = "wait_established" => SubscribeSends = <<>>

\* The second wait of connect has read a text that is no envelope, a
\* "pusher:error" event and a Close frame, and is still pending.
C30_Witness ==
    /\ pc = "wait_subscribed"
    /\ ws = "peer_closed"
    /\ Len(received) = 5
    /\ received[3] = F_not_json
    /\ received[4] = F_pusher_error
    /\ received[5] = Close

----------------------------------------------------------------------------
(* No timeout in the receive calls *)

\* The receive calls of sessions whose relay delivers a script; the last
\* one goes silent, the stream still open, after a ping of each kind, a
\* reserved event and a text that is no envelope.
SilentSessions ==
    { <<F_established, F_subscribed, Ping(<<1>>), F_pusher_ping, F_pusher_error, F_not_json>> }
FairScripts == RoundTrips \cup NoisyHandshakes \cup SilentSessions

FairInit ==
    /\ phase = "start"
    /\ calls = <<>>
    /\ chatroom_id = ExampleRoom
    /\ ws = "unopened"
    /\ peer \in { Scripted(s) : s \in FairScripts }
    /\ received = <<>>
    /\ sent = <<>>
    /\ connectResult = [res |-> Pending, at |-> 0]
    /\ results = <<>>
    /\ dropped = <<>>
    /\ connectInSend = FALSE
    /\ TokenIdle
    /\ RetryIdle

\* A call in flight is polled again when the stream has an item for it.
ContinueCall ==
    \/ NextEvent
    \/ NextMessage
    \/ NextEventSend
    \/ NextMessageSend

\* connect and the receive calls of a session, which a caller may drop.
FairNext ==
    \/ StartConnect
    \/ Connect
    \/ ConnectWait
    \/ ConnectSend
    \/ StartNextEvent
    \/ NextEvent
    \/ NextEventSend
    \/ StartNextMessage
    \/ NextMessage
    \/ NextMessageSend
    \/ Drop

\* The runs in which the runtime keeps polling a call that is awaited.
FairSpec == FairInit /\ [][FairNext]_vars /\ WF_vars(ContinueCall)

\* The frames on which neither call returns when the reply can be sent.
PassedOver(item) ==
    \/ IsPing(item)
    \/ HasReservedName(item)
    \/ IsUndecodable(item)

\* The items on which the call `op` returns whatever the sends do.
Qualifies(op, item) ==
    \/ item.type \in {"Close", "End", "Err"}
    \/ op = "next_event" /\ IsSurfaced(item)
    \/ op = "next_message" /\ IsChatMessage(item)

\* A step in which a receive call returns: it has just read a qualifying
\* frame, the close or the end of the stream or a failed read, or the
\* transport has just refused the reply to the ping it read last.
ReturnsOnArrival ==
    (/\ Len(results') = Len(results) + 1
     /\ results'[Len(results')].op \in {"next_event", "next_message"}) =>
        LET r == results'[Len(results')] IN
        \/ /\ Len(received') = Len(received) + 1
           /\ r.to = Len(received')
           /\ Qualifies(r.op, received'[r.to])
           /\ sent' = sent
        \/ /\ received' = received
           /\ inSend
           /\ r.to = Len(received)
           /\ IsPing(received[r.to])
           /\ r.res = WebSocketError
           /\ Len(sent') = Len(sent) + 1
           /\ ~sent'[Len(sent')].ok

\* A step in which a call on the session reads a ping, a reserved event or
\* a frame that is no envelope: the call stays in flight, suspended in the
\* send of the reply when the frame is a ping.  A step in which the
\* transport takes that reply: the call stays in flight, the ping having
\* its one reply, and reads on.
StaysPending ==
    /\ (/\ pc \in {"next_event", "next_message"}
        /\ Len(received') = Len(received) + 1
        /\ PassedOver(received'[Len(received')])) =>
           /\ pc' \in {"next_event", "next_message"}
           /\ results' = results
           /\ sent' = sent
           /\ inSend' <=> IsPing(received'[Len(received')])
    /\ (/\ pc \in {"next_event", "next_message"}
        /\ inSend
        /\ Len(sent') > Len(sent)
        /\ \A e \in (Len(sent) + 1)..Len(sent') : sent'[e].ok) =>
           /\ pc' = pc
           /\ ~inSend'
           /\ results' = results
           /\ received' = received
           /\ Len(sent') = Len(sent) + 1
           /\ sent'[Len(sent')].at = Len(received)
           /\ IsPing(received[Len(received)])

\* A call is in flight and the relay still has an item on which it returns.
InFlightWillDeliver ==
    /\ pc \in {"next_event", "next_message"}
    /\ \E i \in 1..Len(peer.rest) : Qualifies(pc, peer.rest[i])
CallOver == pc = "ready"

\* C29: next_event and next_message have no timeout.  A call returns only
\* in the step in which a qualifying frame, the close or the end of the
\* stream or a transport error arrives; every ping, reserved event or
\* malformed frame leaves it in flight, the ping answered, however many of
\* them come; and a call that is awaited returns once the stream delivers
\* a frame on which it returns.
C29_NoTimeout ==
    /\ [][ReturnsOnArrival]_vars
    /\ [][StaysPending]_vars
    /\ (InFlightWillDeliver ~> CallOver)

\* A next_event call has read a ping of each kind, a reserved event and a
\* text that is no envelope, has answered both pings, and is still in
\* flight now that the stream is silent.
C29_Witness ==
    /\ pc = "next_event"
    /\ peer.scripted /\ peer.rest = <<>>
    /\ ws = "open"
    /\ Len(received) - callFrom = 4
    /\ \E i, j \in (callFrom + 1)..Len(received) :
          /\ received[i].type = "Ping" /\ Len(SentAt(i)) = 1
          /\ DecodesTo(received[j], S_pusher_ping) /\ Len(SentAt(j)) = 1

====
